---- MODULE Spec2Model ----
(***************************************************************************)
(* JetStream clustering core (server/jetstream_cluster.go): the meta       *)
(* controller's assignment map and its snapshot reconciliation, the        *)
(* stream and consumer replicators' apply paths, and the post-snapshot     *)
(* catch-up protocol.                                                      *)
(***************************************************************************)
EXTENDS Naturals, Integers, Sequences, FiniteSets, Bags, TLC

VARIABLES
    \* ---- applyMetaSnapshot taken as a function of (current map, snapshot)
    sjs,        \* the server-local state the snapshot is applied to
    ssnap,      \* the decoded snapshot handed to applyMetaSnapshot
    sold,       \* the server-local state before the call
    spc,        \* "init" | "applied" | "roundtrip" | "idle"
    \* ---- the meta group: committed log, per-server controller state
    mlog,       \* committed meta entries, in commit order
    mjs,        \* server -> server-local state (assignment map, streams, ...)
    mapplied,   \* server -> number of committed meta entries applied
    msnap,      \* latest meta snapshot: [index, data] or NoSnap
    mleader,    \* the server that is meta leader
    mresp,      \* bag of API responses emitted so far
    mnuid,      \* nuid.Next() counter
    mterm,      \* how many times a group's node has gained the leadership
    \* ---- one replicated stream: its group's log and every replica's store
    tjs,        \* server -> server-local state (holds the stream's assignment)
    tstore,     \* server -> the local message store of the stream
    tnlseq,     \* server -> mset.nlseq
    tlog,       \* committed entries of the stream's group, in commit order
    tapplied,   \* server -> number of committed stream entries applied
    tsnap,      \* latest stream snapshot: [index, state]
    tact,       \* what the last step sent, if it sent: [op, srv, resp]
    tcu,        \* catch-up: subscriptions, requests in flight, sender goroutines
    tpub,       \* server -> the answers of publish calls that have released
                \* mset.mu and not sent yet
    \* ---- one replicated consumer: its group's log and every replica's store
    clog,       \* committed entries of the consumer's group, with what was proposed
    cstore,     \* server -> the local consumer store state
    capplied,   \* server -> number of committed consumer entries applied
    clead,      \* the replica that is consumer leader
    crep,       \* what the previous leader reported when it failed
    \* ---- one call of a function of the package
    fin,        \* the arguments of the call
    fout,       \* what the call returned, once it has returned
    fpc         \* "init" before the call, "done" after it

svars == <<sjs, ssnap, sold, spc>>
mvars == <<mlog, mjs, mapplied, msnap, mleader, mresp, mnuid, mterm>>
tvars == <<tjs, tstore, tnlseq, tlog, tapplied, tsnap, tact, tcu, tpub>>
cvars == <<clog, cstore, capplied, clead, crep>>
fvars == <<fin, fout, fpc>>
vars == <<svars, mvars, tvars, cvars, fvars>>

----------------------------------------------------------------------------
(* Names the model draws its inputs from.                                  *)

Servers == {"n1", "n2"}
Accounts == {"A1", "A2"}
StreamNames == {"S1", "S2"}
ConsumerNames == {"C1", "C2"}

\* _EMPTY_ as a reply subject.
NoReply == 0

\* A nil *streamAssignment / *consumerAssignment.
Nil == [nil |-> TRUE]

----------------------------------------------------------------------------
(* cc.streams: account -> stream name -> streamAssignment.  The map is a   *)
(* function whose domain is the set of accounts that have an entry.        *)

EmptyMap == [a \in {} |-> Nil]

\* js.streamAssignment(account, stream)
streamAssignment(streams, account, stream) ==
    IF account \in DOMAIN streams /\ stream \in DOMAIN streams[account]
    THEN streams[account][stream]
    ELSE Nil

\* accStreams[stream] = sa ; cc.streams[acc.Name] = accStreams
putStream(streams, account, stream, sa) ==
    LET old == IF account \in DOMAIN streams THEN streams[account] ELSE EmptyMap
        acc == [n \in DOMAIN old \cup {stream} |-> IF n = stream THEN sa ELSE old[n]]
    IN  [a \in DOMAIN streams \cup {account} |-> IF a = account THEN acc ELSE streams[a]]

\* delete(accStreams, stream) ; if len(accStreams) == 0 { delete(cc.streams, account) }
deleteStream(streams, account, stream) ==
    LET old == streams[account]
        acc == [n \in DOMAIN old \ {stream} |-> old[n]]
    IN  IF DOMAIN acc = {}
        THEN [a \in DOMAIN streams \ {account} |-> streams[a]]
        ELSE [a \in DOMAIN streams |-> IF a = account THEN acc ELSE streams[a]]

\* sa.consumers[ca.Name] = ca
putConsumer(sa, name, ca) ==
    [sa EXCEPT !.consumers =
        [c \in DOMAIN sa.consumers \cup {name} |-> IF c = name THEN ca ELSE sa.consumers[c]]]

\* delete(sa.consumers, ca.Name)
deleteConsumer(sa, name) ==
    [sa EXCEPT !.consumers = [c \in DOMAIN sa.consumers \ {name} |-> sa.consumers[c]]]

\* The (account, stream) keys of a map.
Keys(streams) == {<<a, s>> : a \in DOMAIN streams, s \in StreamNames} \cap
                 {k \in Accounts \X StreamNames :
                     k[1] \in DOMAIN streams /\ k[2] \in DOMAIN streams[k[1]]}

\* The consumer names under every key: what "structurally equal" compares.
Shape(streams) ==
    [k \in Keys(streams) |-> DOMAIN streams[k[1]][k[2]].consumers]

----------------------------------------------------------------------------
(* Server-local state.  One record per server:                             *)
(*   id       cc.meta.ID()                                                 *)
(*   streams  cc.streams                                                   *)
(*   msets    the account's local Stream objects, as (account, stream)     *)
(*   internal the local streams whose Config().internal is set             *)
(*   obs      the local Consumer objects, as (account, stream, consumer)   *)
(*   dsubj    the delivery subject each local Consumer object delivers to, *)
(*            the empty string for a pull consumer                         *)
(*   nodes    the server's raft-node registry (s.lookupRaftNode), by name  *)
(*   mons     running monitor goroutines, by group name, each holding the  *)
(*            assignment object it was started with and, in todo, what is  *)
(*            left of the handler it is in                                 *)
(*   lead     the groups whose local node reports Leader()                 *)
(*   lch      what waits on the LeadChangeC of the local nodes, by group   *)
(*            name (no entry for a channel that holds nothing)             *)
(*   leaders  the local Stream and Consumer objects in leader mode, those  *)
(*            whose last setLeader call passed true                        *)
(*   resp     sendAPIResponse calls made by the step in progress           *)
(*   acts     process* calls made by the operation in progress             *)
(*   panic    the process has panicked (nil dereference, panic())          *)
(*   fsErr    newFileStore or startRaftNode fail on this server            *)
(*   fails    the calls into the account and store layers that return an   *)
(*            error on this server                                         *)
(*   todo     the monitorCluster goroutine's position: the calls it still  *)
(*            has to make to finish the committed entry it took, the next  *)
(*            one first; <<>> while it waits in its select                 *)
(*   late     what is left of the handlers of monitor goroutines whose     *)
(*            group has been deleted meanwhile                             *)
(* js.mu is released between the sections of a handler, so a handler is a  *)
(* sequence of steps: each operator below is one section, from one         *)
(* acquisition of js.mu (or one call into the account layer) to the next,  *)
(* and leaves in todo the calls that follow it.                            *)

NoMons == [g \in {} |-> Nil]
NoLch == [g \in {} |-> <<>>]
NoSubjects == [o \in {} |-> ""]

NewJS(id) ==
    [id |-> id, streams |-> EmptyMap, msets |-> {}, internal |-> {}, obs |-> {},
     dsubj |-> NoSubjects, nodes |-> {}, mons |-> NoMons, lead |-> {}, lch |-> NoLch, leaders |-> {},
     resp |-> <<>>, acts |-> <<>>,
     panic |-> FALSE, fsErr |-> FALSE, fails |-> {}, todo |-> <<>>, late |-> <<>>]

\* A streamAssignment as the gateway builds it (jsClusteredStreamRequest).
NewSA(account, stream, peers, gname, reply, replicas) ==
    [acct |-> account, name |-> stream, replicas |-> replicas, peers |-> peers,
     gname |-> gname, node |-> FALSE,
     reply |-> reply, consumers |-> [c \in {} |-> Nil], responded |-> FALSE, err |-> FALSE]

\* A consumerAssignment as the gateway builds it (jsClusteredConsumerRequest),
\* for a pull consumer: deliver is its Config.DeliverSubject.
NewCA(account, stream, consumer, peers, gname, reply) ==
    [acct |-> account, stream |-> stream, name |-> consumer, peers |-> peers,
     gname |-> gname, deliver |-> "", node |-> FALSE, reply |-> reply, responded |-> FALSE,
     err |-> FALSE]

\* groupName(prefix, peers, storage): "<prefix>-R<n><s>-<token>", the token being
\* the sole peer when there is one and a hash of nuid.Next() otherwise.
groupName(prefix, peers, nuid) ==
    IF Cardinality(peers) = 1
    THEN <<prefix, 1, CHOOSE p \in peers : TRUE, 0>>
    ELSE <<prefix, Cardinality(peers), "", nuid>>

\* s.sendAPIResponse(ci, acc, subject, reply, request, response)
sendAPIResponse(st, kind, account, stream, consumer, reply, ok) ==
    [st EXCEPT !.resp = Append(@, [srv |-> st.id, kind |-> kind, acct |-> account,
                                   stream |-> stream, consumer |-> consumer,
                                   reply |-> reply, ok |-> ok,
                                   err |-> IF ok THEN "" ELSE "error"])]

\* s.sendAPIResponse of a response whose Error is the one given.
sendAPIError(st, kind, account, stream, consumer, reply, err) ==
    [st EXCEPT !.resp = Append(@, [srv |-> st.id, kind |-> kind, acct |-> account,
                                   stream |-> stream, consumer |-> consumer,
                                   reply |-> reply, ok |-> FALSE, err |-> err])]

record(st, op, account, stream, consumer) ==
    [st EXCEPT !.acts = Append(@, [op |-> op, acct |-> account, stream |-> stream,
                                   consumer |-> consumer])]

\* The goroutine makes the calls given, in order, before what it had left.
call(st, calls) == [st EXCEPT !.todo = calls \o @]

\* A nil dereference or a panic(): the process is gone, its goroutines with it.
panicNow(st) == [st EXCEPT !.panic = TRUE, !.todo = <<>>]

\* rg.isMember(id)
isMember(peers, id) == id \in peers

\* cc.isStreamAssigned(a, stream)
isStreamAssigned(st, account, stream) ==
    LET sa == streamAssignment(st.streams, account, stream)
    IN  sa # Nil /\ st.id \in sa.peers

\* cc.isStreamLeader(account, stream): "true", "false", or "panic" when the
\* group has several peers and rg.node is nil.
isStreamLeader(st, account, stream) ==
    LET sa == streamAssignment(st.streams, account, stream)
    IN  IF sa = Nil THEN "false"
        ELSE IF st.id \notin sa.peers THEN "false"
        ELSE IF Cardinality(sa.peers) = 1 THEN "true"
        ELSE IF ~sa.node THEN "panic"
        ELSE IF sa.gname \in st.lead THEN "true" ELSE "false"

\* cc.isConsumerLeader(account, stream, consumer): the loop ranges over every
\* consumer of the stream (the consumer argument is not consulted) in map order,
\* so when one consumer would answer true and another has a nil node either
\* outcome can happen; panicFirst picks.
isConsumerLeader(st, account, stream, consumer, panicFirst) ==
    LET sa == streamAssignment(st.streams, account, stream)
        mine == IF sa = Nil THEN {}
                ELSE {c \in DOMAIN sa.consumers : st.id \in sa.consumers[c].peers}
        yes == {c \in mine : \/ Cardinality(sa.consumers[c].peers) = 1
                             \/ (sa.consumers[c].node /\ sa.consumers[c].gname \in st.lead)}
        bad == {c \in mine : Cardinality(sa.consumers[c].peers) > 1 /\ ~sa.consumers[c].node}
    IN  IF sa = Nil THEN "false"
        ELSE IF yes # {} /\ bad # {} THEN (IF panicFirst THEN "panic" ELSE "true")
        ELSE IF yes # {} THEN "true"
        ELSE IF bad # {} THEN "panic"
        ELSE "false"

\* js.createRaftGroup(rg): the registry afterwards and rg.node afterwards.
createRaftGroup(st, peers, gname, node) ==
    IF Cardinality(peers) <= 1 \/ ~isMember(peers, st.id)
    THEN [nodes |-> st.nodes, node |-> node]
    ELSE IF gname \in st.nodes
    THEN [nodes |-> st.nodes, node |-> node]
    ELSE IF st.fsErr
    THEN [nodes |-> st.nodes, node |-> node]
    ELSE [nodes |-> st.nodes \cup {gname}, node |-> TRUE]

\* sa.responded = true, on the object the caller holds: the map's entry when it
\* is that object, and the copy its monitor goroutine holds.
markStreamResponded(st, account, stream, gname) ==
    LET sa == streamAssignment(st.streams, account, stream)
        s1 == IF sa # Nil /\ sa.gname = gname
              THEN putStream(st.streams, account, stream, [sa EXCEPT !.responded = TRUE])
              ELSE st.streams
        m1 == IF gname \in DOMAIN st.mons
              THEN [st.mons EXCEPT ![gname].responded = TRUE]
              ELSE st.mons
    IN  [st EXCEPT !.streams = s1, !.mons = m1]

\* What processStreamLeaderChange does once js.mu is released, if !responded:
\* acc := mset.jsa.acc() and the answer, the error recorded or the StreamInfo.
streamCreateResponse(account, stream, reply, err) ==
    [op |-> "streamCreateResponse", acct |-> account, stream |-> stream,
     reply |-> reply, err |-> err]

\* mset.setLeader(isLeader), o.setLeader(isLeader): the object, named by its
\* key, switches to leader or to follower mode.
setLeader(st, key, isLeader) ==
    [st EXCEPT !.leaders = IF isLeader THEN @ \cup {key} ELSE @ \ {key}]

\* A variant of processStreamLeaderChange that answers on every leadership gain.
processStreamLeaderChange_AlwaysAnswer(st, mset, account, stream, gname, reply, responded, err, isLeader) ==
    IF ~mset THEN panicNow(st)
    ELSE IF ~isLeader THEN setLeader(st, <<account, stream>>, FALSE)
    ELSE call(markStreamResponded(setLeader(st, <<account, stream>>, TRUE),
                                  account, stream, gname),
              <<streamCreateResponse(account, stream, reply, err)>>)

\* js.processStreamLeaderChange(mset, sa, isLeader) up to js.mu.Unlock(), sa
\* given by its fields and mset by whether it is non-nil.  A nil mset comes
\* only with isLeader true and responded false, where mset.jsa dereferences
\* nil at the latest.
processStreamLeaderChange(st, mset, account, stream, gname, reply, responded, err, isLeader) ==
    IF ~mset THEN panicNow(st)
    ELSE IF ~isLeader THEN setLeader(st, <<account, stream>>, FALSE)
    ELSE LET st1 == markStreamResponded(setLeader(st, <<account, stream>>, TRUE),
                                        account, stream, gname)
         IN  IF responded THEN st1
             ELSE call(st1, <<streamCreateResponse(account, stream, reply, err)>>)

\* s.startGoRoutine(func() { js.monitorStreamRaftGroup(mset, sa) }) and its
\* consumer counterpart, mset and o being non-nil.
startMonitor(st, kind, account, stream, consumer, gname, reply, responded, err) ==
    [st EXCEPT !.mons =
        [g \in DOMAIN st.mons \cup {gname} |->
            IF g = gname
            THEN [kind |-> kind, acct |-> account, stream |-> stream, name |-> consumer,
                  reply |-> reply, responded |-> responded, err |-> err, todo |-> <<>>]
            ELSE st.mons[g]]]

\* js.processClusterCreateStream(sa) up to the return of js.createRaftGroup(rg),
\* sa being the map's entry for the key.
processClusterCreateStream(st, account, stream) ==
    IF "LookupAccount" \in st.fails THEN st
    ELSE LET sa == st.streams[account][stream]
             cr == createRaftGroup(st, sa.peers, sa.gname, sa.node)
             sa1 == [sa EXCEPT !.node = cr.node]
         IN  call([st EXCEPT !.nodes = cr.nodes,
                             !.streams = putStream(st.streams, account, stream, sa1)],
                  <<[op |-> "createOrUpdateStream", acct |-> account, stream |-> stream]>>)

\* js.processClusterCreateStream(sa), "Go ahead and create or update the
\* stream": mset.Update on a stream the account has, else acc.addStream, which
\* leaves mset nil when it fails, and then the monitor goroutine (which returns
\* at once when mset is nil) or the call of processStreamLeaderChange.
createOrUpdateStream(st, account, stream) ==
    LET sa == st.streams[account][stream]
    IN  IF <<account, stream>> \in st.msets
        THEN IF "Update" \in st.fails
             THEN [st EXCEPT !.streams = putStream(@, account, stream,
                                                   [sa EXCEPT !.err = TRUE])]
             ELSE st
        ELSE LET failed == "addStream" \in st.fails
                 sa1 == [sa EXCEPT !.err = failed]
                 st1 == [st EXCEPT !.streams = putStream(@, account, stream, sa1),
                                   !.msets = IF failed THEN @ ELSE @ \cup {<<account, stream>>}]
             IN  IF sa1.node
                 THEN IF failed THEN st1
                      ELSE startMonitor(st1, "S", account, stream, "", sa1.gname, sa1.reply,
                                        sa1.responded, sa1.err)
                 ELSE call(st1, <<[op |-> "processStreamLeaderChange", mset |-> ~failed,
                                   acct |-> account, stream |-> stream]>>)

\* js.processStreamAssignment(sa) up to the call of processClusterCreateStream.
processStreamAssignment(st0, sa) ==
    LET st == record(st0, "processStreamAssignment", sa.acct, sa.name, "")
    IN  IF "LookupAccount" \in st.fails THEN st
        ELSE IF streamAssignment(st.streams, sa.acct, sa.name) # Nil THEN st
        ELSE LET st1 == [st EXCEPT !.streams = putStream(@, sa.acct, sa.name, sa)]
             IN  IF isMember(sa.peers, st.id)
                 THEN call(st1, <<[op |-> "processClusterCreateStream", acct |-> sa.acct,
                                   stream |-> sa.name]>>)
                 ELSE st1

\* What the handlers of the monitor goroutines given still have to do.
RECURSIVE Orphans(_, _)
Orphans(mons, gone) ==
    IF gone = {} THEN <<>>
    ELSE LET g == CHOOSE x \in gone : TRUE
         IN  mons[g].todo \o Orphans(mons, gone \ {g})

\* mset.Delete(): the local stream, its consumers, their monitors and nodes go;
\* a monitor in the middle of a handler finishes it.
streamDelete(st, account, stream) ==
    LET gone == {g \in DOMAIN st.mons :
                    st.mons[g].acct = account /\ st.mons[g].stream = stream}
    IN  [st EXCEPT !.msets = @ \ {<<account, stream>>},
                   !.obs = {o \in @ : ~(o[1] = account /\ o[2] = stream)},
                   !.dsubj = [o \in {x \in DOMAIN @ : ~(x[1] = account /\ x[2] = stream)} |->
                                 @[o]],
                   !.leaders = {o \in @ : ~(o[1] = account /\ o[2] = stream)},
                   !.mons = [g \in DOMAIN st.mons \ gone |-> st.mons[g]],
                   !.late = @ \o Orphans(st.mons, gone),
                   !.nodes = @ \ gone,
                   !.lead = @ \ gone,
                   !.lch = [g \in DOMAIN @ \ gone |-> @[g]]]

\* js.processClusterDeleteStream(sa, wasLeader)
processClusterDeleteStream(st, sa, wasLeader) ==
    IF "LookupAccount" \in st.fails THEN st
    ELSE LET found == <<sa.acct, sa.name>> \in st.msets
             internal == <<sa.acct, sa.name>> \in st.internal
             failed == "Delete" \in st.fails
             err == ~found \/ internal \/ failed
             st1 == IF found /\ ~internal /\ ~failed
                    THEN streamDelete(st, sa.acct, sa.name)
                    ELSE st
         IN  IF ~wasLeader THEN st1
             ELSE sendAPIResponse(st1, "streamDelete", sa.acct, sa.name, "", sa.reply, ~err)

\* js.processStreamRemoval(sa) up to the call of processClusterDeleteStream.
processStreamRemoval(st0, sa) ==
    LET st == record(st0, "processStreamRemoval", sa.acct, sa.name, "")
        wasLeader == isStreamLeader(st, sa.acct, sa.name)
        needDelete == streamAssignment(st.streams, sa.acct, sa.name) # Nil
    IN  IF wasLeader = "panic" THEN panicNow(st)
        ELSE IF ~needDelete THEN st
        ELSE call([st EXCEPT !.streams = deleteStream(@, sa.acct, sa.name)],
                  <<[op |-> "processClusterDeleteStream", sa |-> sa,
                     wasLeader |-> (wasLeader = "true")]>>)

\* ca.responded = true on the object the caller holds (see markStreamResponded).
markConsumerResponded(st, account, stream, consumer, gname) ==
    LET sa == streamAssignment(st.streams, account, stream)
        s1 == IF sa # Nil /\ consumer \in DOMAIN sa.consumers
                 /\ sa.consumers[consumer].gname = gname
              THEN putStream(st.streams, account, stream,
                       [sa EXCEPT !.consumers[consumer].responded = TRUE])
              ELSE st.streams
        m1 == IF gname \in DOMAIN st.mons
              THEN [st.mons EXCEPT ![gname].responded = TRUE]
              ELSE st.mons
    IN  [st EXCEPT !.streams = s1, !.mons = m1]

\* What processConsumerLeaderChange does once js.mu is released, if !responded:
\* the answer, the error recorded or the ConsumerInfo.
consumerCreateResponse(account, stream, consumer, reply, err) ==
    [op |-> "consumerCreateResponse", acct |-> account, stream |-> stream,
     name |-> consumer, reply |-> reply, err |-> err]

\* js.processConsumerLeaderChange(o, ca, isLeader) up to js.mu.Unlock(), ca
\* given by its fields and o by whether its methods can be called: on a nil
\* *Consumer o.setLeader and o.account dereference nil unless they test their
\* receiver, as o.raftNode does.
processConsumerLeaderChange(st, o, account, stream, consumer, gname, reply, responded, err, isLeader) ==
    IF ~o THEN panicNow(st)
    ELSE IF ~isLeader THEN setLeader(st, <<account, stream, consumer>>, FALSE)
    ELSE LET st1 == markConsumerResponded(setLeader(st, <<account, stream, consumer>>, TRUE),
                                          account, stream, consumer, gname)
         IN  IF responded THEN st1
             ELSE call(st1, <<consumerCreateResponse(account, stream, consumer, reply, err)>>)

\* o.updateDeliverSubject(newDeliver)
updateDeliverSubject(st, account, stream, consumer, newDeliver) ==
    [st EXCEPT !.dsubj[<<account, stream, consumer>>] = newDeliver]

\* js.processClusterCreateConsumer(ca) up to the return of js.createRaftGroup(rg),
\* ca being the map's entry for the key.  For a consumer that runs already,
\* update says whether the test on the running consumer passes once it is
\* found to deliver to a subject: it is durable, its configuration equals the
\* assignment's but for the delivery, and it allows no interest or has none
\* locally.
processClusterCreateConsumer(st, account, stream, consumer, update) ==
    LET sa == st.streams[account][stream]
        ca == sa.consumers[consumer]
    IN  IF "LookupAccount" \in st.fails THEN st
        ELSE IF <<account, stream>> \notin st.msets
        THEN \* acc.LookupStream failed: ca.err = err
             [st EXCEPT !.streams = putStream(@, account, stream,
                                       [sa EXCEPT !.consumers[consumer].err = TRUE])]
        ELSE IF <<account, stream, consumer>> \in st.obs
        THEN \* consumer already running
             IF st.dsubj[<<account, stream, consumer>>] # "" /\ update
             THEN updateDeliverSubject(st, account, stream, consumer, ca.deliver)
             ELSE st
        ELSE LET cr == createRaftGroup(st, ca.peers, ca.gname, ca.node)
                 ca1 == [ca EXCEPT !.node = cr.node]
             IN  call([st EXCEPT !.nodes = cr.nodes,
                                 !.streams = putStream(@, account, stream,
                                                 [sa EXCEPT !.consumers[consumer] = ca1])],
                      <<[op |-> "addConsumer", acct |-> account, stream |-> stream,
                         name |-> consumer]>>)

\* js.processClusterCreateConsumer(ca), "Add in the consumer": mset.addConsumer,
\* which leaves o nil and sets ca.err when it fails, and then the start of the
\* monitor goroutine, which has yet to run, or the call of
\* processConsumerLeaderChange.
addConsumer(st, account, stream, consumer) ==
    LET sa == st.streams[account][stream]
        ca == sa.consumers[consumer]
        failed == "addConsumer" \in st.fails
        ca1 == IF failed THEN [ca EXCEPT !.err = TRUE] ELSE ca
        key == <<account, stream, consumer>>
        st1 == [st EXCEPT !.obs = IF failed THEN @ ELSE @ \cup {key},
                          !.dsubj = IF failed THEN @
                                    ELSE [o \in DOMAIN @ \cup {key} |->
                                             IF o = key THEN ca.deliver ELSE @[o]],
                          !.streams = putStream(@, account, stream,
                                          [sa EXCEPT !.consumers[consumer] = ca1])]
    IN  IF ca1.node
        THEN LET st2 == startMonitor(st1, "C", account, stream, consumer, ca1.gname,
                                     ca1.reply, ca1.responded, ca1.err)
             IN  IF failed
                 THEN [st2 EXCEPT !.mons[ca1.gname].todo =
                          <<[op |-> "monitorConsumerRaftGroup", o |-> FALSE]>>]
                 ELSE st2
        ELSE call(st1, <<[op |-> "processConsumerLeaderChange", o |-> ~failed,
                          acct |-> account, stream |-> stream, name |-> consumer]>>)

\* js.processConsumerAssignment(ca) up to the call of processClusterCreateConsumer.
processConsumerAssignment(st0, ca) ==
    LET st == record(st0, "processConsumerAssignment", ca.acct, ca.stream, ca.name)
        sa == streamAssignment(st.streams, ca.acct, ca.stream)
    IN  IF sa = Nil THEN st
        ELSE LET st1 == [st EXCEPT !.streams =
                            putStream(@, ca.acct, ca.stream, putConsumer(sa, ca.name, ca))]
             IN  IF isMember(ca.peers, st.id)
                 THEN call(st1, <<[op |-> "processClusterCreateConsumer", acct |-> ca.acct,
                                   stream |-> ca.stream, name |-> ca.name]>>)
                 ELSE st1

\* obs.Delete(): the local consumer, its monitor and its node go; a monitor in
\* the middle of a handler finishes it.
consumerDelete(st, account, stream, consumer) ==
    LET gone == {g \in DOMAIN st.mons :
                    /\ st.mons[g].kind = "C" /\ st.mons[g].acct = account
                    /\ st.mons[g].stream = stream /\ st.mons[g].name = consumer}
    IN  [st EXCEPT !.obs = @ \ {<<account, stream, consumer>>},
                   !.dsubj = [o \in DOMAIN @ \ {<<account, stream, consumer>>} |-> @[o]],
                   !.leaders = @ \ {<<account, stream, consumer>>},
                   !.mons = [g \in DOMAIN st.mons \ gone |-> st.mons[g]],
                   !.late = @ \o Orphans(st.mons, gone),
                   !.nodes = @ \ gone,
                   !.lead = @ \ gone,
                   !.lch = [g \in DOMAIN @ \ gone |-> @[g]]]

\* js.processClusterDeleteConsumer(ca, wasLeader)
processClusterDeleteConsumer(st, ca, wasLeader) ==
    IF "LookupAccount" \in st.fails THEN st
    ELSE LET found == <<ca.acct, ca.stream>> \in st.msets
             internal == <<ca.acct, ca.stream>> \in st.internal
             has == found /\ ~internal /\ <<ca.acct, ca.stream, ca.name>> \in st.obs
             failed == has /\ "obsDelete" \in st.fails
             err == ~found \/ internal \/ failed
             st1 == IF has /\ ~failed
                    THEN consumerDelete(st, ca.acct, ca.stream, ca.name)
                    ELSE st
         IN  IF ~wasLeader THEN st1
             ELSE sendAPIResponse(st1, "consumerDelete", ca.acct, ca.stream, ca.name,
                                  ca.reply, ~err)

\* js.processConsumerRemoval(ca) up to the call of processClusterDeleteConsumer.
processConsumerRemoval(st0, ca, panicFirst) ==
    LET st == record(st0, "processConsumerRemoval", ca.acct, ca.stream, ca.name)
        wasLeader == isConsumerLeader(st, ca.acct, ca.stream, ca.name, panicFirst)
        sa == streamAssignment(st.streams, ca.acct, ca.stream)
        st1 == IF sa # Nil
               THEN [st EXCEPT !.streams =
                        putStream(@, ca.acct, ca.stream, deleteConsumer(sa, ca.name))]
               ELSE st
    IN  IF wasLeader = "panic" THEN panicNow(st)
        ELSE call(st1, <<[op |-> "processClusterDeleteConsumer", ca |-> ca,
                          wasLeader |-> (wasLeader = "true")]>>)

----------------------------------------------------------------------------
(* Meta snapshots.                                                         *)

\* The order in which the model lists the keys of a map where the order
\* does not matter.
AccountSeq == <<"A1", "A2">>
StreamSeq == <<"S1", "S2">>
ConsumerSeq == <<"C1", "C2">>

KeySeq ==
    [i \in 1..(Len(AccountSeq) * Len(StreamSeq)) |->
        <<AccountSeq[((i - 1) \div Len(StreamSeq)) + 1],
          StreamSeq[((i - 1) % Len(StreamSeq)) + 1]>>]

Reverse(seq) == [i \in 1..Len(seq) |-> seq[Len(seq) + 1 - i]]

RECURSIVE Filter(_, _)
Filter(seq, S) ==
    IF seq = <<>> THEN <<>>
    ELSE IF Head(seq) \in S THEN <<Head(seq)>> \o Filter(Tail(seq), S)
    ELSE Filter(Tail(seq), S)

RangeOrder(seq, S, rev) == IF rev THEN Reverse(Filter(seq, S)) ELSE Filter(seq, S)

\* Go ranges over a map in an order of its own each time: the orders in which
\* a range can visit the keys S.
RECURSIVE MapOrders(_)
MapOrders(S) ==
    IF S = {} THEN {<<>>}
    ELSE UNION {{<<x>> \o p : p \in MapOrders(S \ {x})} : x \in S}

\* for account, asa := range m { for sn, sa := range asa { ... } }: the streams
\* of one account are visited one after another.
NestedOrders(K) ==
    {p \in MapOrders(K) :
        \A i \in 1..Len(p), j \in 1..Len(p) :
            (i < j /\ p[i][1] = p[j][1]) => \A h \in i..j : p[h][1] = p[i][1]}

\* writeableStreamAssignment as json.Marshal writes it: Client, Config, Group,
\* Sync and Consumers; of each consumer the tagged fields, Reply among them.
\* The unexported node, responded and err are not written.
writeableStreamAssignment(sa) ==
    [acct |-> sa.acct, name |-> sa.name, replicas |-> sa.replicas, peers |-> sa.peers,
     gname |-> sa.gname,
     consumers |-> {[acct |-> sa.consumers[c].acct, stream |-> sa.consumers[c].stream,
                     name |-> sa.consumers[c].name, peers |-> sa.consumers[c].peers,
                     gname |-> sa.consumers[c].gname, deliver |-> sa.consumers[c].deliver,
                     reply |-> sa.consumers[c].reply] :
                    c \in DOMAIN sa.consumers}]

\* js.metaSnapshot(): nil (here the empty set) when there is no stream.
metaSnapshot(st) ==
    {writeableStreamAssignment(st.streams[k[1]][k[2]]) : k \in Keys(st.streams)}

\* The map applyMetaSnapshot builds from the decoded array.
decodeMetaSnapshot(buf) ==
    LET accts == {w.acct : w \in buf}
        saOf(w) ==
            [acct |-> w.acct, name |-> w.name, replicas |-> w.replicas, peers |-> w.peers,
             gname |-> w.gname, node |-> FALSE, reply |-> NoReply, responded |-> FALSE, err |-> FALSE,
             consumers |->
                [c \in {x.name : x \in w.consumers} |->
                    LET x == CHOOSE y \in w.consumers : y.name = c
                    IN  [acct |-> x.acct, stream |-> x.stream, name |-> x.name,
                         peers |-> x.peers, gname |-> x.gname, deliver |-> x.deliver,
                         node |-> FALSE, reply |-> x.reply, responded |-> FALSE,
                         err |-> FALSE]]]
    IN  [a \in accts |->
            [s \in {w.name : w \in {x \in buf : x.acct = a}} |->
                saOf(CHOOSE w \in buf : w.acct = a /\ w.name = s)]]

\* "Walk through the old list to generate the delete list."
snapSaDel(old, new) == Keys(old) \ Keys(new)
snapSaChk(old, new) == Keys(old) \cap Keys(new)
\* A variant of the add list that forgets the asa[sn] == nil test.
snapSaAdd_NoNilTest(old, new) == Keys(new)

\* "Walk through the new list to generate the add list."
snapSaAdd(old, new) == Keys(new) \ Keys(old)

\* "Now walk the ones to check and process consumers": the loop ranges over
\* osa.consumers, the consumers the server holds.
snapCaDel(osa, nsa) == {c \in DOMAIN osa.consumers : c \notin DOMAIN nsa.consumers}
snapCaAdd(osa, nsa) == {c \in DOMAIN osa.consumers : c \in DOMAIN nsa.consumers}

RECURSIVE Flatten(_)
Flatten(seqs) == IF seqs = <<>> THEN <<>> ELSE Head(seqs) \o Flatten(Tail(seqs))

\* The orders the four kinds of range of applyMetaSnapshot(buf) can take on a
\* server: old for the walk of cc.streams, new for the walk of the decoded map,
\* chk[k] for the walk of the consumers held under a stream to check, add[k]
\* for the walk of the consumers of a stream to add.
SnapOrders(st, buf) ==
    LET streams == decodeMetaSnapshot(buf)
        old == st.streams
        chks == snapSaChk(old, streams)
        adds == snapSaAdd(old, streams)
    IN  {[old |-> o, new |-> n, chk |-> c, add |-> a] :
            o \in NestedOrders(Keys(old)), n \in NestedOrders(adds),
            c \in [chks -> MapOrders(ConsumerNames)],
            a \in [adds -> MapOrders(ConsumerNames)]}

\* Every range in the order of KeySeq and ConsumerSeq.
InOrder ==
    [old |-> KeySeq, new |-> KeySeq,
     chk |-> [k \in Accounts \X StreamNames |-> ConsumerSeq],
     add |-> [k \in Accounts \X StreamNames |-> ConsumerSeq]]

\* js.applyMetaSnapshot(buf) up to js.mu.Unlock(): the four lists, and in todo
\* the loops over them.  caAdd holds the consumer objects the map holds, and
\* processConsumerAssignment is called on them as they are by then.
applyMetaSnapshot(st, buf, ord) ==
    IF buf = {} THEN st     \* s2.Decode fails on an empty buffer
    ELSE
    LET streams == decodeMetaSnapshot(buf)
        old == st.streams
        dels == Filter(ord.old, snapSaDel(old, streams))
        chks == Filter(ord.old, snapSaChk(old, streams))
        adds == Filter(ord.new, snapSaAdd(old, streams))
        saDel == [i \in 1..Len(dels) |->
                     [op |-> "processStreamRemoval", sa |-> old[dels[i][1]][dels[i][2]]]]
        addOf(k) ==
            LET sa == streams[k[1]][k[2]]
                cs == Filter(ord.add[k], DOMAIN sa.consumers)
            IN  <<[op |-> "processStreamAssignment", sa |-> sa]>>
                    \o [i \in 1..Len(cs) |->
                           [op |-> "processConsumerAssignment", held |-> FALSE,
                            ca |-> sa.consumers[cs[i]]]]
        saAdd == Flatten([i \in 1..Len(adds) |-> addOf(adds[i])])
        caOf(k, pick(_, _), op) ==
            LET osa == old[k[1]][k[2]]
                cs == Filter(ord.chk[k], pick(osa, streams[k[1]][k[2]]))
            IN  [i \in 1..Len(cs) |-> [op |-> op, held |-> TRUE, ca |-> osa.consumers[cs[i]]]]
        caDel == Flatten([i \in 1..Len(chks) |->
                             caOf(chks[i], snapCaDel, "processConsumerRemoval")])
        caAdd == Flatten([i \in 1..Len(chks) |->
                             caOf(chks[i], snapCaAdd, "processConsumerAssignment")])
    IN  call(st, saDel \o saAdd \o caDel \o caAdd)

----------------------------------------------------------------------------
(* Meta log entries.                                                       *)

\* encodeAddStreamAssignment / encodeDeleteStreamAssignment: the op byte and the
\* JSON of the assignment's tagged fields.
encodeStreamAssignment(op, sa) ==
    [type |-> "normal", op |-> op, acct |-> sa.acct, name |-> sa.name,
     replicas |-> sa.replicas, peers |-> sa.peers, gname |-> sa.gname, reply |-> sa.reply]

\* A normal entry whose bytes after the op byte are no JSON of an assignment.
CorruptEntry(op) == [type |-> "normal", op |-> op, corrupt |-> TRUE]

\* json.Unmarshal(buf, &sa) returns an error.
UnmarshalFails(e) == e.type = "normal" /\ "corrupt" \in DOMAIN e

\* decodeStreamAssignment(buf[1:])
decodeStreamAssignment(e) ==
    NewSA(e.acct, e.name, e.peers, e.gname, e.reply, e.replicas)

\* encodeAddConsumerAssignment / encodeDeleteConsumerAssignment
encodeConsumerAssignment(op, ca) ==
    [type |-> "normal", op |-> op, acct |-> ca.acct, stream |-> ca.stream,
     name |-> ca.name, peers |-> ca.peers, gname |-> ca.gname, deliver |-> ca.deliver,
     reply |-> ca.reply]

\* decodeConsumerAssignment(buf[1:])
decodeConsumerAssignment(e) ==
    [NewCA(e.acct, e.stream, e.name, e.peers, e.gname, e.reply) EXCEPT !.deliver = e.deliver]

\* The op bytes applyMetaEntries has a case for.
MetaOps == {"assignStream", "removeStream", "assignConsumer", "removeConsumer"}

\* What a step of a goroutine draws: the order of the ranges of applyMetaSnapshot,
\* the outcome of the range of isConsumerLeader, whether the methods of
\* *Consumer that processConsumerLeaderChange calls accept a nil receiver, and
\* whether a running push consumer passes the test for a new delivery subject.
NoInput == [ord |-> InOrder, panicFirst |-> FALSE, nilSafe |-> FALSE, update |-> FALSE]

\* js.applyMetaEntries(entries) up to the end of the first section of the call
\* it makes for the first entry; the loop goes on with the other entries when
\* that call has returned.
applyMetaEntries(st, entries, in) ==
    IF entries = <<>> THEN st
    ELSE LET e == Head(entries)
             loop == IF Tail(entries) = <<>> THEN st
                     ELSE call(st, <<[op |-> "applyMetaEntries", entries |-> Tail(entries)]>>)
         IN  IF e.type = "snapshot" THEN applyMetaSnapshot(loop, e.data, in.ord)
             ELSE IF e.op \notin MetaOps THEN panicNow(st)
             ELSE IF UnmarshalFails(e) THEN st
             ELSE IF e.op = "assignStream"
             THEN processStreamAssignment(loop, decodeStreamAssignment(e))
             ELSE IF e.op = "removeStream"
             THEN processStreamRemoval(loop, decodeStreamAssignment(e))
             ELSE IF e.op = "assignConsumer"
             THEN processConsumerAssignment(loop, decodeConsumerAssignment(e))
             ELSE processConsumerRemoval(loop, decodeConsumerAssignment(e), in.panicFirst)

----------------------------------------------------------------------------
(* The goroutines of a server, step by step.                               *)

\* The goroutine makes the next of its calls: one section of it.
Step(st, in) ==
    LET f == Head(st.todo)
        s0 == [st EXCEPT !.todo = Tail(@)]
    IN  IF f.op = "Applied" THEN s0
        ELSE IF f.op = "monitorConsumerRaftGroup"
        THEN \* o is nil: n is nil and the warning reads o.acc.Name
             panicNow(s0)
        ELSE IF f.op = "applyMetaEntries" THEN applyMetaEntries(s0, f.entries, in)
        ELSE IF f.op = "processStreamAssignment" THEN processStreamAssignment(s0, f.sa)
        ELSE IF f.op = "processClusterCreateStream"
        THEN processClusterCreateStream(s0, f.acct, f.stream)
        ELSE IF f.op = "createOrUpdateStream" THEN createOrUpdateStream(s0, f.acct, f.stream)
        ELSE IF f.op = "processStreamLeaderChange"
        THEN LET sa == s0.streams[f.acct][f.stream]
             IN  processStreamLeaderChange(s0, f.mset, f.acct, f.stream, sa.gname, sa.reply,
                                           sa.responded, sa.err, TRUE)
        ELSE IF f.op = "streamCreateResponse"
        THEN sendAPIResponse(s0, "streamCreate", f.acct, f.stream, "", f.reply, ~f.err)
        ELSE IF f.op = "processStreamRemoval" THEN processStreamRemoval(s0, f.sa)
        ELSE IF f.op = "processClusterDeleteStream"
        THEN processClusterDeleteStream(s0, f.sa, f.wasLeader)
        ELSE IF f.op = "processConsumerAssignment"
        THEN LET sa == streamAssignment(s0.streams, f.ca.acct, f.ca.stream)
             IN  processConsumerAssignment(s0,
                     IF f.held /\ sa # Nil /\ f.ca.name \in DOMAIN sa.consumers
                     THEN sa.consumers[f.ca.name] ELSE f.ca)
        ELSE IF f.op = "processClusterCreateConsumer"
        THEN processClusterCreateConsumer(s0, f.acct, f.stream, f.name, in.update)
        ELSE IF f.op = "addConsumer" THEN addConsumer(s0, f.acct, f.stream, f.name)
        ELSE IF f.op = "processConsumerLeaderChange"
        THEN LET ca == s0.streams[f.acct][f.stream].consumers[f.name]
             IN  processConsumerLeaderChange(s0, f.o \/ in.nilSafe, f.acct, f.stream, f.name,
                                             ca.gname, ca.reply, ca.responded, ca.err, TRUE)
        ELSE IF f.op = "consumerCreateResponse"
        THEN sendAPIResponse(s0, "consumerCreate", f.acct, f.stream, f.name, f.reply, ~f.err)
        ELSE IF f.op = "processConsumerRemoval"
        THEN processConsumerRemoval(s0, f.ca, in.panicFirst)
        ELSE processClusterDeleteConsumer(s0, f.ca, f.wasLeader)

\* What the step that makes the first call of todo can draw.
StepInputs(st) ==
    LET f == Head(st.todo)
    IN  IF f.op = "applyMetaEntries" /\ Head(f.entries).type = "snapshot"
        THEN {[ord |-> o, panicFirst |-> b, nilSafe |-> FALSE, update |-> FALSE] :
                 o \in SnapOrders(st, Head(f.entries).data), b \in BOOLEAN}
        ELSE IF \/ f.op = "processConsumerRemoval"
                \/ f.op = "applyMetaEntries" /\ Head(f.entries).op = "removeConsumer"
        THEN {[NoInput EXCEPT !.panicFirst = b] : b \in BOOLEAN}
        ELSE IF f.op = "processConsumerLeaderChange" /\ ~f.o
        THEN {[NoInput EXCEPT !.nilSafe = b] : b \in BOOLEAN}
        ELSE IF /\ f.op = "processClusterCreateConsumer"
                /\ <<f.acct, f.stream, f.name>> \in st.obs
                /\ st.dsubj[<<f.acct, f.stream, f.name>>] # ""
        THEN {[NoInput EXCEPT !.update = b] : b \in BOOLEAN}
        ELSE {NoInput}

\* What waits on the LeadChangeC of the node of group g.
LeadChangeC(st, g) == IF g \in DOMAIN st.lch THEN st.lch[g] ELSE <<>>

\* The channel of group g holds q from now on.
setLeadChangeC(st, g, q) ==
    [st EXCEPT !.lch = [x \in (DOMAIN @ \ {g}) \cup (IF q = <<>> THEN {} ELSE {g}) |->
                           IF x = g THEN q ELSE @[x]]]

\* The node of group g changes state: n.Leader() reports isLeader from now
\* on, and the node posts the value on its LeadChangeC.
nodeLeaderChange(st, g, isLeader) ==
    setLeadChangeC([st EXCEPT !.lead = IF isLeader THEN @ \cup {g} ELSE @ \ {g}],
                   g, Append(LeadChangeC(st, g), isLeader))

\* case isLeader := <-lch of a monitor goroutine, up to the js.mu.Unlock() of
\* the handler; what is left of the handler is the monitor's.
monitorLeaderChange(st, g) ==
    LET m == st.mons[g]
        isLeader == Head(LeadChangeC(st, g))
        st1 == [setLeadChangeC(st, g, Tail(LeadChangeC(st, g))) EXCEPT !.todo = <<>>]
        st2 == IF m.kind = "S"
               THEN processStreamLeaderChange(st1, TRUE, m.acct, m.stream, g, m.reply,
                                              m.responded, m.err, isLeader)
               ELSE processConsumerLeaderChange(st1, TRUE, m.acct, m.stream, m.name, g,
                                                m.reply, m.responded, m.err, isLeader)
    IN  IF st2.panic THEN st2
        ELSE [st2 EXCEPT !.mons[g].todo = st2.todo, !.todo = st.todo]

\* The goroutines of the server that are in a handler: monitorCluster, the
\* monitors, and those whose group is gone.
Goroutines(st) ==
    (IF st.todo = <<>> THEN {} ELSE {<<"meta", 0>>})
        \cup {<<"late", i>> : i \in 1..Len(st.late)}
        \cup {<<"monitor", g>> : g \in {x \in DOMAIN st.mons : st.mons[x].todo # <<>>}}

\* Goroutine w makes its next step, drawing in.
goStep(st, w, in) ==
    LET mine == IF w[1] = "meta" THEN st.todo
                ELSE IF w[1] = "late" THEN <<st.late[w[2]]>>
                ELSE st.mons[w[2]].todo
        st1 == Step([st EXCEPT !.todo = mine], in)
    IN  IF st1.panic \/ w[1] = "meta" THEN st1
        ELSE IF w[1] = "late"
        THEN [st1 EXCEPT !.todo = st.todo,
                         !.late = SubSeq(@, 1, w[2] - 1) \o SubSeq(@, w[2] + 1, Len(@))]
        ELSE [st1 EXCEPT !.mons[w[2]].todo = st1.todo, !.todo = st.todo]

\* The monitor goroutine of group g goes on with its handler.
monitorStep(st, g) == goStep(st, <<"monitor", g>>, NoInput)

\* A goroutine whose group is gone goes on with what its handler had left.
lateStep(st, i) == goStep(st, <<"late", i>>, NoInput)

\* The states the server is in after one more step of one of its goroutines:
\* the next section of a handler, or the receive of a value from LeadChangeC
\* by a monitor that waits in its select.
Steps(st) ==
    IF st.panic THEN {}
    ELSE UNION {{goStep(st, w, in) :
                    in \in IF w[1] = "meta" THEN StepInputs(st) ELSE {NoInput}} :
                   w \in Goroutines(st)}
         \cup {monitorLeaderChange(st, g) :
                  g \in {x \in DOMAIN st.mons : /\ st.mons[x].todo = <<>>
                                                /\ LeadChangeC(st, x) # <<>>}}

\* The states the server can be in once every goroutine of it waits again or
\* the process has panicked, whatever the order of their steps.
RECURSIVE Settle(_)
Settle(st) ==
    LET next == Steps(st)
    IN  IF next = {} THEN {st} ELSE UNION {Settle(x) : x \in next}

\* The state between operations: nothing sent and no call recorded.
Quiesce(st) == [st EXCEPT !.resp = <<>>, !.acts = <<>>]

\* The states of the server once every goroutine has finished what it was in.
Done(st) == {Quiesce(x) : x \in Settle(st)}

\* The states of the server after the events given, each finished before the
\* next: a call of monitorCluster, the gain of a group's leadership by its node
\* if there is one, the file store beginning to fail, or calls beginning to
\* fail.
RECURSIVE After(_, _)
After(st, events) ==
    IF events = <<>> \/ st.panic THEN {st}
    ELSE LET e == Head(events)
             st1 == IF e.op = "lead"
                    THEN IF e.g \in st.nodes THEN nodeLeaderChange(st, e.g, TRUE) ELSE st
                    ELSE IF e.op = "fsErr" THEN [st EXCEPT !.fsErr = TRUE]
                    ELSE IF e.op = "fails" THEN [st EXCEPT !.fails = e.fails]
                    ELSE call(st, <<e>>)
         IN  UNION {After(x, Tail(events)) : x \in Done(st1)}

\* The call has returned once the goroutine has no section of it left.
Returned(st) == IF st.todo = <<>> THEN "done" ELSE "running"

\* The functions that take each server to one of the states of F for it.
Each(F) ==
    {f \in [DOMAIN F -> UNION {F[s] : s \in DOMAIN F}] : \A s \in DOMAIN F : f[s] \in F[s]}

----------------------------------------------------------------------------
(* SpecSnap: applyMetaSnapshot over every pair of a held assignment map    *)
(* and a snapshot, both with at most MaxSnapStreams streams, section by    *)
(* section.                                                                *)

MaxSnapStreams == 2

SnapSelf == "n1"

KeyIndex(k) == CHOOSE i \in 1..Len(KeySeq) : KeySeq[i] = k
ConsumerIndex(c) == CHOOSE i \in 1..Len(ConsumerSeq) : ConsumerSeq[i] = c

\* The keys the maps of this specification range over.
SnapKeys == {<<"A1", "S1">>, <<"A1", "S2">>, <<"A2", "S1">>}

\* The assignment maps by shape: which keys, and which consumers under each.
Shapes ==
    UNION {[K -> SUBSET ConsumerNames] :
              K \in {K \in SUBSET SnapKeys : Cardinality(K) <= MaxSnapStreams}}

\* The peers of a key's groups: a single-replica stream on this server, a stream
\* replicated on both servers, and a stream this server is no member of.
SnapPeers(k) ==
    IF k = <<"A1", "S1">> THEN {"n1"}
    ELSE IF k = <<"A1", "S2">> THEN {"n1", "n2"}
    ELSE {"n2"}

\* The states of the server once the node of each group of gs has gained the
\* leadership and the group's monitor has handled the change.
RECURSIVE LeadAll(_, _)
LeadAll(st, gs) ==
    IF gs = {} THEN {st}
    ELSE LET g == CHOOSE x \in gs : TRUE
         IN  UNION {LeadAll(x, gs \ {g}) : x \in After(st, <<[op |-> "lead", g |-> g]>>)}

\* The delivery subjects of a push consumer: the one it was created with, and
\* the one of a later assignment of the same consumer.
FirstDeliver == "d1"
NextDeliver == "d2"

\* What fails on a server while it applies the consumer assignments it holds.
BuildFails == {{}, {"LookupAccount"}, {"addConsumer"}}

\* What a server is handed for the assignments of a shape, key by key: the
\* assignment of the stream, then those of its consumers, the calls of fc
\* failing while it applies them.  With push the consumers deliver to a subject
\* and are then assigned again with another: a second request, with a reply
\* subject and a group of its own (createGroupForConsumer), named with the
\* next value of nuid.Next() no first assignment has.
RECURSIVE BuildEvents(_, _, _, _)
BuildEvents(keys, shape, fc, push) ==
    IF keys = <<>> THEN <<>>
    ELSE LET k == Head(keys)
             i == KeyIndex(k)
             peers == SnapPeers(k)
             sa == NewSA(k[1], k[2], peers, groupName("S", peers, i), i, Cardinality(peers))
             cs == RangeOrder(ConsumerSeq, shape[k], FALSE)
             cas(deliver, again) ==
                 [j \in 1..Len(cs) |->
                     LET nuid == 10 * i + ConsumerIndex(cs[j]) + again
                     IN  [op |-> "processConsumerAssignment", held |-> FALSE,
                          ca |-> [NewCA(k[1], k[2], cs[j], peers,
                                        groupName("C", peers, nuid), nuid)
                                     EXCEPT !.deliver = deliver]]]
         IN  <<[op |-> "processStreamAssignment", sa |-> sa], [op |-> "fails", fails |-> fc]>>
             \o (IF push THEN cas(FirstDeliver, 0) \o cas(NextDeliver, Len(ConsumerSeq))
                 ELSE cas("", 0))
             \o <<[op |-> "fails", fails |-> {}]>>
             \o BuildEvents(Tail(keys), shape, fc, push)

\* The states of a server that applied, entry by entry, the assignments of a
\* shape; with lead, the nodes it has for them have then gained the leadership.
BuildWith(id, shape, lead, fc, push) ==
    UNION {IF lead THEN LeadAll(st, st.nodes) ELSE {st} :
              st \in After(NewJS(id),
                           BuildEvents(RangeOrder(KeySeq, DOMAIN shape, FALSE), shape, fc,
                                       push))}

Build(id, shape, lead) == BuildWith(id, shape, lead, {}, FALSE)

\* The stream store and the consumer store before anything was written.
NewStore == [first |-> 0, last |-> 0, msgs |-> {}]
NewConsumerState ==
    [delivered |-> <<0, 0>>, ackfloor |-> <<0, 0>>, pending |-> {}]

\* tact when the last step sent nothing.
NoAct == [op |-> "none", srv |-> "", resp |-> <<>>]

\* A StreamState of an empty store.
NoStreamState == [first |-> 0, last |-> 0, deleted |-> {}]

\* const maxOut = int64(48 * 1024 * 1024) in runCatchup.
maxOut == 50331648

\* Catch-up before any snapshot was installed:
\*   subs      the live subscriptions to sync reply subjects, [id, srv]
\*   replaySub server -> mset.replaySub, 0 for nil
\*   reqs      the sync requests sent and not handled yet
\*   runs      the runCatchup goroutines started so far, each with the
\*             messages it sent that the requester has not handled (wire) and
\*             the acks sent to it that it has not handled (acks)
\*   max       the limit on the bytes in flight
NoCatchup ==
    [subs |-> {}, replaySub |-> [s \in Servers |-> 0], reqs |-> <<>>, runs |-> <<>>,
     max |-> maxOut]

StreamIdle ==
    /\ tjs = [s \in Servers |-> NewJS(s)]
    /\ tstore = [s \in Servers |-> NewStore]
    /\ tnlseq = [s \in Servers |-> 0]
    /\ tlog = <<>>
    /\ tapplied = [s \in Servers |-> 0]
    /\ tsnap = [index |-> 0, state |-> NoStreamState]
    /\ tact = NoAct
    /\ tcu = NoCatchup
    /\ tpub = [s \in Servers |-> <<>>]

\* Nothing reported: no consumer leader has failed yet.
NoReport == [at |-> 0, delivered |-> <<0, 0>>, ackfloor |-> <<0, 0>>]

\* A replica of the consumer before it applied anything.
NewReplica == [store |-> NewConsumerState, panic |-> FALSE, err |-> ""]

ConsumerIdle ==
    /\ clog = <<>>
    /\ cstore = [s \in Servers |-> NewReplica]
    /\ capplied = [s \in Servers |-> 0]
    /\ clead = "n1"
    /\ crep = NoReport

\* No call in progress.
NoCall == <<>>

FuncIdle ==
    /\ fin = NoCall
    /\ fout = NoCall
    /\ fpc = "idle"

MetaIdle ==
    /\ mlog = <<>>
    /\ mjs = [s \in Servers |-> NewJS(s)]
    /\ mapplied = [s \in Servers |-> 0]
    /\ msnap = [index |-> 0, data |-> {}]
    /\ mleader = "n1"
    /\ mresp = EmptyBag
    /\ mnuid = 0
    /\ mterm = 0

\* What fails on the server while it applies the snapshot: nothing, or the
\* deletion of consumers.
SnapFails == {{}, {"obsDelete"}}

\* What fails on a server while its own snapshot comes back to it.
TripFails == SnapFails \cup BuildFails

\* The server holds one map and is handed the snapshot of another; or it holds
\* a map some of whose consumers it could not create, or whose push consumers
\* were assigned again, and is about to take its own snapshot.
SnapInit ==
    /\ \E old \in Shapes, new \in Shapes, lead \in BOOLEAN, f \in TripFails,
          fc \in BuildFails, push \in BOOLEAN :
          /\ IF fc = {} /\ ~push THEN f \in SnapFails ELSE new = old
          /\ \E st \in BuildWith(SnapSelf, old, lead, fc, push) :
                /\ ~st.panic
                /\ sjs = [st EXCEPT !.fails = f]
          /\ IF fc = {} /\ ~push
             THEN \E other \in Build("n2", new, FALSE) : ssnap = metaSnapshot(other)
             ELSE ssnap = metaSnapshot(sjs)
    /\ sold = sjs
    /\ spc = "init"
    /\ MetaIdle
    /\ StreamIdle
    /\ ConsumerIdle
    /\ FuncIdle

\* applyMetaSnapshot(e.Data) for a snapshot entry, up to js.mu.Unlock().
SnapApply ==
    /\ spc = "init"
    /\ \E ord \in SnapOrders(sjs, ssnap) : sjs' = applyMetaSnapshot(sjs, ssnap, ord)
    /\ spc' = IF sjs'.todo = <<>> THEN "applied" ELSE "applying"
    /\ UNCHANGED <<ssnap, sold, mvars, tvars, cvars, fvars>>

\* metaSnapshot() of the server's state, under its js.mu.RLock().
SnapTake ==
    /\ spc = "init"
    /\ ssnap' = metaSnapshot(sjs)
    /\ sold' = sjs
    /\ spc' = "taken"
    /\ UNCHANGED <<sjs, mvars, tvars, cvars, fvars>>

\* The snapshot the server took comes back to its applyMetaSnapshot, up to
\* js.mu.Unlock().
SnapRoundTrip ==
    /\ spc = "taken"
    /\ \E ord \in SnapOrders(sjs, ssnap) : sjs' = applyMetaSnapshot(sjs, ssnap, ord)
    /\ spc' = IF sjs'.todo = <<>> THEN "roundtrip" ELSE "tripping"
    /\ UNCHANGED <<ssnap, sold, mvars, tvars, cvars, fvars>>

\* A goroutine of the server makes its next step: the next section of the
\* loops of applyMetaSnapshot over its four lists, or a step of a monitor the
\* loops have started.
SnapStep ==
    /\ spc \in {"applying", "applied", "tripping", "roundtrip"}
    /\ \E st \in Steps(sjs) : sjs' = st
    /\ spc' = IF sjs'.todo # <<>> THEN spc
              ELSE IF spc = "applying" THEN "applied"
              ELSE IF spc = "tripping" THEN "roundtrip" ELSE spc
    /\ UNCHANGED <<ssnap, sold, mvars, tvars, cvars, fvars>>

SnapNext ==
    \/ SnapApply
    \/ SnapTake
    \/ SnapRoundTrip
    \/ SnapStep

SpecSnap == SnapInit /\ [][SnapNext]_vars

\* C1: after applyMetaSnapshot(s) returns, the streams map has the keys of s and,
\* under each key, the consumer names of s.
C1_MapEqualsSnapshot ==
    (spc = "applied" /\ ssnap # {} /\ ~sjs.panic)
        => Shape(sjs.streams) = Shape(decodeMetaSnapshot(ssnap))

----------------------------------------------------------------------------
(* Meta log entries and the request gateway.                               *)

\* The elements of a sequence.
Range(seq) == {seq[i] : i \in 1..Len(seq)}

\* The ways to pick r different positions of n, in an order.
Picks(n, r) == {f \in [1..r -> 1..n] : \A i \in 1..r, j \in 1..r : i # j => f[i] # f[j]}

\* A variant of selectPeerGroup that does not look for a route.
selectPeerGroup_NoRouteTest(id, peers, routed, r) ==
    LET nodes == peers
    IN  IF Len(nodes) < r THEN {<<>>}
        ELSE {[i \in 1..r |-> nodes[f[i]]] : f \in Picks(Len(nodes), r)}

\* cc.selectPeerGroup(r) on the server id, cc.meta.Peers() being peers and routed
\* the peers getRouteByHash finds: what nodes[:r] can be after the shuffle, the
\* nil result being <<>>.
selectPeerGroup(id, peers, routed, r) ==
    LET nodes == Filter(peers, {id} \cup routed)
    IN  IF Len(nodes) < r THEN {<<>>}
        ELSE {[i \in 1..r |-> nodes[f[i]]] : f \in Picks(Len(nodes), r)}

\* A variant of createGroupForStream that always asks for one peer.
createGroupForStream_OnePeer(id, peers, routed, cfgReplicas) ==
    selectPeerGroup(id, peers, routed, 1)

\* cc.createGroupForStream(cfg): the peers of the group it can return, <<>> for
\* its nil.
createGroupForStream(id, peers, routed, cfgReplicas) ==
    LET replicas == IF cfgReplicas = 0 THEN 1 ELSE cfgReplicas
    IN  selectPeerGroup(id, peers, routed, replicas)

\* A variant of jsClusteredStreamRequest that proposes the assignment although no
\* group was selected.
jsClusteredStreamRequest_ProposeAnyway(st, account, stream, replicas, peers, reply, nuid) ==
    [st |-> IF peers = {}
            THEN sendAPIError(st, "streamCreate", account, stream, "", reply,
                              "jsInsufficientErr")
            ELSE st,
     prop |-> <<encodeStreamAssignment("assignStream",
                   NewSA(account, stream, peers, groupName("S", peers, nuid), reply,
                         replicas))>>]

\* s.jsClusteredStreamRequest(ci, subject, reply, rmsg, cfg): the server state
\* afterwards and what was proposed to the meta node.
jsClusteredStreamRequest(st, account, stream, replicas, peers, reply, nuid) ==
    IF peers = {}
    THEN [st |-> sendAPIError(st, "streamCreate", account, stream, "", reply,
                              "jsInsufficientErr"),
          prop |-> <<>>]
    ELSE [st |-> st,
          prop |-> <<encodeStreamAssignment("assignStream",
                        NewSA(account, stream, peers, groupName("S", peers, nuid), reply,
                         replicas))>>]

\* s.jsClusteredStreamDeleteRequest(ci, stream, subject, reply, rmsg)
jsClusteredStreamDeleteRequest(st, account, stream, reply) ==
    LET osa == streamAssignment(st.streams, account, stream)
    IN  IF osa = Nil THEN [st |-> st, prop |-> <<>>]
        ELSE [st |-> st,
              prop |-> <<encodeStreamAssignment("removeStream",
                            NewSA(account, stream, osa.peers, osa.gname, reply,
                                  osa.replicas))>>]

\* s.jsClusteredConsumerRequest(ci, subject, reply, rmsg, stream, cfg), for a
\* durable consumer name.
jsClusteredConsumerRequest(st, account, stream, consumer, reply, nuid) ==
    LET sa == streamAssignment(st.streams, account, stream)
    IN  IF sa = Nil
        THEN [st |-> sendAPIError(st, "streamCreate", account, stream, consumer, reply,
                                  "ErrJetStreamStreamNotFound"),
              prop |-> <<>>]
        ELSE IF sa.peers = {}
        THEN [st |-> sendAPIError(st, "streamCreate", account, stream, consumer, reply,
                                  "jsInsufficientErr"),
              prop |-> <<>>]
        ELSE [st |-> st,
              prop |-> <<encodeConsumerAssignment("assignConsumer",
                            NewCA(account, stream, consumer, sa.peers,
                                  groupName("C", sa.peers, nuid), reply))>>]

\* s.jsClusteredConsumerDeleteRequest(ci, stream, consumer, subject, reply, rmsg)
jsClusteredConsumerDeleteRequest(st, account, stream, consumer, reply) ==
    LET sa == streamAssignment(st.streams, account, stream)
    IN  IF sa = Nil \/ consumer \notin DOMAIN sa.consumers
        THEN [st |-> st, prop |-> <<>>]
        ELSE LET oca == sa.consumers[consumer]
             IN  [st |-> st,
                  prop |-> <<encodeConsumerAssignment("removeConsumer",
                                [NewCA(account, stream, consumer, oca.peers, oca.gname,
                                       reply) EXCEPT !.deliver = oca.deliver])>>]

----------------------------------------------------------------------------
(* SpecMeta: the meta group.  Requests reach the meta leader and append to *)
(* the committed log; every server's monitorCluster applies the log in     *)
(* order, or a snapshot that covers a prefix of it, section by section;    *)
(* stream and consumer groups change leader, their monitors answering once *)
(* js.mu is released.  Goroutines interleave between sections.  The log is *)
(* too short for the removal of a consumer.                                *)
(* SpecMetaRun: the same cluster over a longer log, consumer removals      *)
(* included, where a goroutine begins a handler only while every other     *)
(* goroutine of the cluster waits, and the meta group keeps its leader.    *)

MaxMetaLog == 2
MaxRunLog == 3
\* The values a LeadChangeC holds at most in the model.
MaxLeadChanges == 1
\* The elections the groups' nodes win at most in the model.
MaxTerms == 2

MetaKeys == {<<"A1", "S1">>}
MetaConsumers == {"C1"}
MetaReplicas == {0, 1, 2}
\* cc.meta.Peers()
MetaPeers == <<"n1", "n2">>

\* What fails on the servers of the meta group: nothing, or on n1 the adding
\* of streams, the adding of consumers, the deletion of streams, or the lookup
\* of accounts.
MetaFails ==
    {[s \in Servers |-> IF s = "n1" THEN f ELSE {}] :
        f \in {{}, {"addStream"}, {"addConsumer"}, {"Delete"}, {"LookupAccount"}}}

SnapIdle ==
    /\ sjs = NewJS(SnapSelf)
    /\ ssnap = {}
    /\ sold = NewJS(SnapSelf)
    /\ spc = "idle"

MetaStart ==
    /\ mlog = <<>>
    /\ mapplied = [s \in Servers |-> 0]
    /\ msnap = [index |-> 0, data |-> {}]
    /\ mleader = "n1"
    /\ mresp = EmptyBag
    /\ mnuid = 0
    /\ mterm = 0
    /\ SnapIdle
    /\ StreamIdle
    /\ ConsumerIdle
    /\ FuncIdle

MetaInit ==
    /\ \E f \in MetaFails : mjs = [s \in Servers |-> [NewJS(s) EXCEPT !.fails = f[s]]]
    /\ MetaStart

MetaRunInit ==
    /\ mjs = [s \in Servers |-> NewJS(s)]
    /\ MetaStart

\* The responses sent go out, each as often as it was sent.
Emit(bag, resp) ==
    bag (+) [r \in {resp[i] : i \in 1..Len(resp)} |->
                Cardinality({i \in 1..Len(resp) : resp[i] = r})]

\* A request handled by the meta leader: its responses go out, its proposal is
\* committed.
Handled(r, max) ==
    /\ mnuid < max
    /\ Len(mlog) + Len(r.prop) <= max
    /\ mlog' = mlog \o r.prop
    /\ mresp' = Emit(mresp, r.st.resp)
    /\ mnuid' = mnuid + 1
    /\ UNCHANGED <<mjs, mapplied, msnap, mleader, mterm, svars, tvars, cvars, fvars>>

StreamRequestUpTo(max) ==
    /\ ~mjs[mleader].panic
    /\ Len(mlog) < max
    /\ \E k \in MetaKeys, r \in MetaReplicas :
          \E peers \in createGroupForStream(mleader, MetaPeers, Servers \ {mleader}, r) :
              Handled(jsClusteredStreamRequest(mjs[mleader], k[1], k[2], r, Range(peers),
                                               mnuid + 1, mnuid + 1), max)

StreamDeleteRequestUpTo(max) ==
    /\ ~mjs[mleader].panic
    /\ Len(mlog) < max
    /\ \E k \in MetaKeys :
          /\ streamAssignment(mjs[mleader].streams, k[1], k[2]) # Nil
          /\ Handled(jsClusteredStreamDeleteRequest(mjs[mleader], k[1], k[2], mnuid + 1),
                     max)

ConsumerRequestUpTo(max) ==
    /\ ~mjs[mleader].panic
    /\ Len(mlog) < max
    /\ \E k \in MetaKeys, c \in MetaConsumers :
          Handled(jsClusteredConsumerRequest(mjs[mleader], k[1], k[2], c,
                                             mnuid + 1, mnuid + 1), max)

ConsumerDeleteRequestUpTo(max) ==
    /\ ~mjs[mleader].panic
    /\ Len(mlog) < max
    /\ \E k \in MetaKeys, c \in MetaConsumers :
          /\ LET sa == streamAssignment(mjs[mleader].streams, k[1], k[2])
             IN  sa # Nil /\ c \in DOMAIN sa.consumers
          /\ Handled(jsClusteredConsumerDeleteRequest(mjs[mleader], k[1], k[2], c,
                                                      mnuid + 1), max)

StreamRequest == StreamRequestUpTo(MaxMetaLog)
StreamDeleteRequest == StreamDeleteRequestUpTo(MaxMetaLog)
ConsumerRequest == ConsumerRequestUpTo(MaxMetaLog)

\* A request of any of the four kinds.
MetaRequestRun ==
    \/ StreamRequestUpTo(MaxRunLog)
    \/ StreamDeleteRequestUpTo(MaxRunLog)
    \/ ConsumerRequestUpTo(MaxRunLog)
    \/ ConsumerDeleteRequestUpTo(MaxRunLog)

\* case ce := <-ach: js.applyMetaEntries(ce.Entries), then n.Applied(ce.Index).
TakeEntries(st, entries, index) ==
    call(st, <<[op |-> "applyMetaEntries", entries |-> entries],
               [op |-> "Applied", index |-> index]>>)

\* Server s is left in st: what it sent goes out.
MetaLeave(s, st) ==
    /\ mjs' = [mjs EXCEPT ![s] = Quiesce(st)]
    /\ mresp' = Emit(mresp, st.resp)

\* monitorCluster of server s takes the entries of index given from ApplyC and
\* makes the first call; at the end of the handler it calls n.Applied.
MetaTake(s, entries, index) ==
    LET st0 == TakeEntries(mjs[s], entries, index)
    IN  \E in \in StepInputs(st0) :
            /\ MetaLeave(s, Step(st0, in))
            /\ UNCHANGED mapplied

\* monitorCluster takes a committed entry from ApplyC and begins to apply it.
ApplyMetaEntry ==
    \E s \in Servers :
        /\ ~mjs[s].panic
        /\ mjs[s].todo = <<>>
        /\ mapplied[s] < Len(mlog)
        /\ MetaTake(s, <<mlog[mapplied[s] + 1]>>, mapplied[s] + 1)
        /\ UNCHANGED <<mlog, msnap, mleader, mnuid, mterm, svars, tvars, cvars, fvars>>

\* monitorCluster goes on with the entry it took: the next section of a
\* handler, or n.Applied(ce.Index) once applyMetaEntries has returned.
ContinueApply ==
    \E s \in Servers :
        /\ ~mjs[s].panic
        /\ mjs[s].todo # <<>>
        /\ IF Head(mjs[s].todo).op = "Applied"
           THEN /\ mapplied' = [mapplied EXCEPT ![s] = Head(mjs[s].todo).index]
                /\ mjs' = [mjs EXCEPT ![s].todo = Tail(@)]
                /\ UNCHANGED mresp
           ELSE /\ \E in \in StepInputs(mjs[s]) : MetaLeave(s, Step(mjs[s], in))
                /\ UNCHANGED mapplied
        /\ UNCHANGED <<mlog, msnap, mleader, mnuid, mterm, svars, tvars, cvars, fvars>>

\* n.Snapshot(snap) of the meta node: the snapshot it holds afterwards.  Zero
\* bytes produce no snapshot; other bytes stand for the entries it has applied.
Snapshot(held, applied, snap) ==
    IF snap = {} THEN held ELSE [index |-> applied, data |-> snap]

\* s.JetStreamSnapshotMeta(): errNotLeader unless the server is meta leader.
SnapshotMeta ==
    \E s \in Servers :
        /\ ~mjs[s].panic
        /\ msnap' = IF s # mleader THEN msnap
                    ELSE Snapshot(msnap, mapplied[s], metaSnapshot(mjs[s]))
        /\ UNCHANGED <<mlog, mjs, mapplied, mleader, mresp, mnuid, mterm, svars, tvars, cvars, fvars>>

\* monitorCluster takes a snapshot entry from ApplyC and begins to apply it:
\* the node brings a server that is behind the snapshot up to it.
InstallMetaSnapshot ==
    \E s \in Servers :
        /\ ~mjs[s].panic
        /\ mjs[s].todo = <<>>
        /\ mapplied[s] < msnap.index
        /\ MetaTake(s, <<[type |-> "snapshot", data |-> msnap.data]>>, msnap.index)
        /\ UNCHANGED <<mlog, msnap, mleader, mnuid, mterm, svars, tvars, cvars, fvars>>

\* The node of a stream or consumer group wins an election that no live node
\* holds, or steps down: its Leader() changes at once, and the value waits on
\* LeadChangeC for the group's monitor.
NodeLeaderChange ==
    \E s \in Servers :
        /\ ~mjs[s].panic
        /\ \E g \in mjs[s].nodes :
              LET isLeader == g \notin mjs[s].lead
              IN  /\ Len(LeadChangeC(mjs[s], g)) < MaxLeadChanges
                  /\ isLeader => /\ mterm < MaxTerms
                                 /\ \A o \in Servers : mjs[o].panic \/ g \notin mjs[o].lead
                  /\ mjs' = [mjs EXCEPT ![s] = nodeLeaderChange(@, g, isLeader)]
                  /\ mterm' = IF isLeader THEN mterm + 1 ELSE mterm
        /\ UNCHANGED <<mlog, mapplied, msnap, mleader, mresp, mnuid, svars, tvars, cvars, fvars>>

\* A group's monitor, waiting in its select, takes a value from LeadChangeC:
\* case isLeader := <-lch.
GroupLeaderChange ==
    \E s \in Servers :
        /\ ~mjs[s].panic
        /\ \E g \in DOMAIN mjs[s].mons :
              /\ mjs[s].mons[g].todo = <<>>
              /\ LeadChangeC(mjs[s], g) # <<>>
              /\ MetaLeave(s, monitorLeaderChange(mjs[s], g))
        /\ UNCHANGED <<mlog, mapplied, msnap, mleader, mnuid, mterm, svars, tvars, cvars, fvars>>

\* A monitor goes on with its handler once js.mu is released: the answer.
GroupLeaderRespond ==
    \E s \in Servers :
        /\ ~mjs[s].panic
        /\ \E st \in {monitorStep(mjs[s], g) :
                         g \in {x \in DOMAIN mjs[s].mons : mjs[s].mons[x].todo # <<>>}}
                     \cup {lateStep(mjs[s], i) : i \in 1..Len(mjs[s].late)} :
                 MetaLeave(s, st)
        /\ UNCHANGED <<mlog, mapplied, msnap, mleader, mnuid, mterm, svars, tvars, cvars, fvars>>

\* js.processLeaderChange(isLeader): the meta group elects another server; the
\* handler changes nothing.
MetaLeaderChange ==
    /\ \E s \in Servers \ {mleader} : mleader' = s
    /\ UNCHANGED <<mlog, mjs, mapplied, msnap, mresp, mnuid, mterm, svars, tvars, cvars, fvars>>

MetaNext ==
    \/ StreamRequest
    \/ StreamDeleteRequest
    \/ ConsumerRequest
    \/ ApplyMetaEntry
    \/ ContinueApply
    \/ SnapshotMeta
    \/ InstallMetaSnapshot
    \/ NodeLeaderChange
    \/ GroupLeaderChange
    \/ GroupLeaderRespond
    \/ MetaLeaderChange

SpecMeta == MetaInit /\ [][MetaNext]_vars

\* Every goroutine of the server waits in its select, or the process is gone.
Waits(st) ==
    \/ st.panic
    \/ /\ st.todo = <<>>
       /\ st.late = <<>>
       /\ \A g \in DOMAIN st.mons : st.mons[g].todo = <<>>

\* No goroutine of the cluster is in a handler.
MetaQuiet == \A s \in Servers : Waits(mjs[s])

MetaRunNext ==
    \/ MetaQuiet /\ MetaRequestRun
    \/ MetaQuiet /\ ApplyMetaEntry
    \/ MetaQuiet /\ SnapshotMeta
    \/ MetaQuiet /\ InstallMetaSnapshot
    \/ MetaQuiet /\ NodeLeaderChange
    \/ MetaQuiet /\ GroupLeaderChange
    \/ ContinueApply
    \/ GroupLeaderRespond

SpecMetaRun == MetaRunInit /\ [][MetaRunNext]_vars

\* SpecMetaSnap: the cluster of SpecMetaRun while the leadership of the meta
\* group moves between the servers and the groups' nodes hold no election.
MetaSnapNext ==
    \/ MetaQuiet /\ MetaRequestRun
    \/ MetaQuiet /\ ApplyMetaEntry
    \/ MetaQuiet /\ SnapshotMeta
    \/ MetaQuiet /\ InstallMetaSnapshot
    \/ MetaQuiet /\ MetaLeaderChange
    \/ ContinueApply

SpecMetaSnap == MetaRunInit /\ [][MetaSnapNext]_vars

\* The consumers of a map, as (account, stream, consumer) triples.
ConsumersOf(streams) ==
    UNION {{<<k[1], k[2], c>> : c \in DOMAIN streams[k[1]][k[2]].consumers} :
              k \in Keys(streams)}

\* The calls of one kind recorded by the operation.
Calls(st, op) == {i \in 1..Len(st.acts) : st.acts[i].op = op}

\* C2: when a snapshot is applied on a server that holds a stream the snapshot
\* also has, every consumer the snapshot lists under that stream has had
\* processConsumerAssignment run for it and is in the map afterwards, and every
\* consumer only the old version has is gone.
C2_ExistingStreamConsumersReconciled ==
    (spc = "applied" /\ ssnap # {} /\ ~sjs.panic) =>
        \A k \in Keys(sold.streams) \cap Keys(decodeMetaSnapshot(ssnap)) :
            LET new == decodeMetaSnapshot(ssnap)[k[1]][k[2]].consumers
                old == sold.streams[k[1]][k[2]].consumers
                now == sjs.streams[k[1]][k[2]].consumers
            IN  /\ \A c \in DOMAIN new :
                      /\ c \in DOMAIN now
                      /\ \E i \in Calls(sjs, "processConsumerAssignment") :
                            /\ sjs.acts[i].acct = k[1] /\ sjs.acts[i].stream = k[2]
                            /\ sjs.acts[i].consumer = c
                /\ \A c \in DOMAIN old \ DOMAIN new : c \notin DOMAIN now

CallFor(i) == <<sjs.acts[i].acct, sjs.acts[i].stream, sjs.acts[i].consumer>>

----------------------------------------------------------------------------
(* The meta group's claims.                                                *)

\* The servers that have not panicked.
Alive == {s \in Servers : ~mjs[s].panic}

\* How many API responses went to a reply subject, over the whole cluster.
RECURSIVE SumCopies(_, _)
SumCopies(bag, recs) ==
    IF recs = {} THEN 0
    ELSE LET r == CHOOSE x \in recs : TRUE
         IN  CopiesIn(r, bag) + SumCopies(bag, recs \ {r})

ResponsesTo(reply) ==
    SumCopies(mresp, {r \in BagToSet(mresp) : r.reply = reply})

\* The replies of the mutations committed in the meta log.
CommittedReplies == {mlog[i].reply : i \in 1..Len(mlog)}

\* C3: no committed mutation's reply subject receives more than one API
\* response, whatever the interleaving of applies and leadership changes.
C3_ExactlyOneResponse ==
    \A r \in CommittedReplies : ResponsesTo(r) <= 1

\* The responses emitted by the step.
NewResponses == {r \in BagToSet(mresp') : CopiesIn(r, mresp') > CopiesIn(r, mresp)}

\* The server leads the group of the assign entry e: its node reports Leader(),
\* or the group has the server as its only peer.
LeadsGroupOf(st, e) ==
    /\ st.id \in e.peers
    /\ (Cardinality(e.peers) = 1 \/ e.gname \in st.lead)

IsCreateOf(e, r) ==
    /\ e.reply = r.reply
    /\ e.acct = r.acct
    /\ \/ r.kind = "streamCreate" /\ e.op = "assignStream" /\ e.name = r.stream
       \/ /\ r.kind = "consumerCreate" /\ e.op = "assignConsumer"
          /\ e.stream = r.stream /\ e.name = r.consumer

IsRemovalOf(e, r) ==
    /\ e.acct = r.acct
    /\ \/ r.kind = "streamDelete" /\ e.op = "removeStream" /\ e.name = r.stream
       \/ /\ r.kind = "consumerDelete" /\ e.op = "removeConsumer"
          /\ e.stream = r.stream /\ e.name = r.consumer

\* The index monitorCluster of the server will hand to n.Applied at the end of
\* the handler it is in, or what it has applied when it is in none.
Applying(st, applied) ==
    LET at == {i \in 1..Len(st.todo) : st.todo[i].op = "Applied"}
    IN  IF at = {} THEN applied ELSE st.todo[CHOOSE i \in at : TRUE].index

\* C4: a success response to a create is emitted by a server only when the
\* assign entry with that reply lies in the prefix the server has applied or is
\* applying and the server leads the entry's group; a response to a delete is
\* emitted only by a server that is applying a prefix with a removal entry for
\* the stream or consumer the response names.
C4_NoResponseBeforeApply ==
    [][\A r \in NewResponses :
          (r.ok /\ r.reply # NoReply) =>
              IF r.kind \in {"streamCreate", "consumerCreate"}
              THEN \E i \in 1..Applying(mjs'[r.srv], mapplied'[r.srv]) :
                      IsCreateOf(mlog'[i], r) /\ LeadsGroupOf(mjs'[r.srv], mlog'[i])
              ELSE \E i \in (mapplied[r.srv] + 1)..Applying(mjs[r.srv], mapplied[r.srv]) :
                      IsRemovalOf(mlog'[i], r)]_vars

\* The live servers none of whose goroutines is in a handler.
AliveAndWaiting == {s \in Alive : Waits(mjs[s])}

\* C5: while a live server is in no handler, every stream assignment in its map
\* is that of an assignStream entry within the prefix the server has applied,
\* after which the prefix holds no removeStream for the same account and stream.
C5_AssignmentsFromLog ==
    \A s \in AliveAndWaiting : \A k \in Keys(mjs[s].streams) :
        LET sa == mjs[s].streams[k[1]][k[2]]
        IN  \E i \in 1..mapplied[s] :
               /\ mlog[i].op = "assignStream"
               /\ mlog[i].acct = k[1] /\ mlog[i].name = k[2]
               /\ mlog[i].gname = sa.gname /\ mlog[i].peers = sa.peers
               /\ \A j \in (i + 1)..mapplied[s] :
                     ~(mlog[j].op = "removeStream"
                       /\ mlog[j].acct = k[1] /\ mlog[j].name = k[2])

\* C6: two live servers that have applied the same prefix of the meta log and
\* are in no handler hold the same streams and the same consumers under each
\* stream.
C6_SameHistorySameMap ==
    \A s1 \in AliveAndWaiting, s2 \in AliveAndWaiting :
        mapplied[s1] = mapplied[s2] => Shape(mjs[s1].streams) = Shape(mjs[s2].streams)

----------------------------------------------------------------------------
(* Stream replication: the entries of a stream's group and their codecs.   *)

\* entryOp values of the stream and consumer ops.
streamMsgOp == 4
purgeStreamOp == 5
deleteMsgOp == 6
updateDeliveredOp == 7
updateAcksOp == 8
updateFullStateOp == 9

\* binary.LittleEndian.PutUint64 / PutUint32 / PutUint16: w bytes, low byte first.
RECURSIVE PutLE(_, _)
PutLE(n, w) == IF w = 0 THEN <<>> ELSE <<n % 256>> \o PutLE(n \div 256, w - 1)

\* binary.LittleEndian.Uint64 / Uint32 / Uint16 of the bytes given.
RECURSIVE GetLE(_)
GetLE(b) == IF b = <<>> THEN 0 ELSE b[1] + 256 * GetLE(Tail(b))

\* int64(le.Uint64(b)): the eight bytes read as a two's complement value.
Int64(b) ==
    IF b[8] >= 128 THEN -1 - GetLE([i \in 1..8 |-> 255 - b[i]]) ELSE GetLE(b)

\* buf[from:], from counted from 0.
Drop(buf, from) == SubSeq(buf, from + 1, Len(buf))
\* buf[:n]
Take(buf, n) == SubSeq(buf, 1, n)

\* encodeStreamMsg(subject, reply, hdr, msg, lseq, ts); the lengths are cast to
\* uint16 and uint32.
encodeStreamMsg(subject, reply, hdr, msg, lseq, ts) ==
    <<streamMsgOp>> \o PutLE(lseq, 8) \o PutLE(ts, 8)
        \o PutLE(Len(subject) % 65536, 2) \o subject
        \o PutLE(Len(reply) % 65536, 2) \o reply
        \o PutLE(Len(hdr) % 65536, 2) \o hdr
        \o PutLE(Len(msg), 4) \o msg

BadStreamMsg ==
    [err |-> TRUE, subject |-> <<>>, reply |-> <<>>, hdr |-> <<>>, msg |-> <<>>,
     lseq |-> 0, ts |-> 0]

\* A variant of decodeStreamMsg that needs one byte more than the fixed part.
decodeStreamMsg_Min27(buf) ==
    IF Len(buf) < 27 THEN BadStreamMsg
    ELSE
    LET lseq == GetLE(Take(buf, 8))
        b1 == Drop(buf, 8)
        ts == Int64(Take(b1, 8))
        b2 == Drop(b1, 8)
        sl == GetLE(Take(b2, 2))
        b3 == Drop(b2, 2)
    IN  IF Len(b3) < sl THEN BadStreamMsg
        ELSE
        LET subject == Take(b3, sl)
            b4 == Drop(b3, sl)
        IN  IF Len(b4) < 2 THEN BadStreamMsg
            ELSE
            LET rl == GetLE(Take(b4, 2))
                b5 == Drop(b4, 2)
            IN  IF Len(b5) < rl THEN BadStreamMsg
                ELSE
                LET reply == Take(b5, rl)
                    b6 == Drop(b5, rl)
                IN  IF Len(b6) < 2 THEN BadStreamMsg
                    ELSE
                    LET hl == GetLE(Take(b6, 2))
                        b7 == Drop(b6, 2)
                    IN  IF Len(b7) < hl THEN BadStreamMsg
                        ELSE
                        LET hdr == Take(b7, hl)
                            b8 == Drop(b7, hl)
                        IN  IF Len(b8) < 4 THEN BadStreamMsg
                            ELSE
                            LET ml == GetLE(Take(b8, 4))
                                b9 == Drop(b8, 4)
                            IN  IF Len(b9) < ml THEN BadStreamMsg
                                ELSE [err |-> FALSE, subject |-> subject, reply |-> reply,
                                      hdr |-> hdr, msg |-> Take(b9, ml), lseq |-> lseq,
                                      ts |-> ts]

\* decodeStreamMsg(buf), buf being the entry after its op byte.
decodeStreamMsg(buf) ==
    IF Len(buf) < 26 THEN BadStreamMsg
    ELSE
    LET lseq == GetLE(Take(buf, 8))
        b1 == Drop(buf, 8)
        ts == Int64(Take(b1, 8))
        b2 == Drop(b1, 8)
        sl == GetLE(Take(b2, 2))
        b3 == Drop(b2, 2)
    IN  IF Len(b3) < sl THEN BadStreamMsg
        ELSE
        LET subject == Take(b3, sl)
            b4 == Drop(b3, sl)
        IN  IF Len(b4) < 2 THEN BadStreamMsg
            ELSE
            LET rl == GetLE(Take(b4, 2))
                b5 == Drop(b4, 2)
            IN  IF Len(b5) < rl THEN BadStreamMsg
                ELSE
                LET reply == Take(b5, rl)
                    b6 == Drop(b5, rl)
                IN  IF Len(b6) < 2 THEN BadStreamMsg
                    ELSE
                    LET hl == GetLE(Take(b6, 2))
                        b7 == Drop(b6, 2)
                    IN  IF Len(b7) < hl THEN BadStreamMsg
                        ELSE
                        LET hdr == Take(b7, hl)
                            b8 == Drop(b7, hl)
                        IN  IF Len(b8) < 4 THEN BadStreamMsg
                            ELSE
                            LET ml == GetLE(Take(b8, 4))
                                b9 == Drop(b8, 4)
                            IN  IF Len(b9) < ml THEN BadStreamMsg
                                ELSE [err |-> FALSE, subject |-> subject, reply |-> reply,
                                      hdr |-> hdr, msg |-> Take(b9, ml), lseq |-> lseq,
                                      ts |-> ts]

\* A committed entry of the stream's group.  Message entries carry their bytes;
\* purge, delete and snapshot entries carry the fields of their JSON, and in
\* json whether json.Unmarshal accepts their bytes.
StreamMsgEntry(buf) ==
    [type |-> "normal", op |-> buf[1], buf |-> buf, seq |-> 0, reply |-> NoReply,
     snap |-> NoStreamState, json |-> TRUE]

\* encodeStreamPurge(&streamPurge{Stream, Reply, Client})
encodeStreamPurge(reply) ==
    [type |-> "normal", op |-> purgeStreamOp, buf |-> <<>>, seq |-> 0, reply |-> reply,
     snap |-> NoStreamState, json |-> TRUE]

\* encodeMsgDelete(&streamMsgDelete{Seq, Stream, Reply, Client})
encodeMsgDelete(seq, reply) ==
    [type |-> "normal", op |-> deleteMsgOp, buf |-> <<>>, seq |-> seq, reply |-> reply,
     snap |-> NoStreamState, json |-> TRUE]

\* An EntrySnapshot entry carrying the JSON of a StreamState.
StreamSnapshotEntry(state) ==
    [type |-> "snapshot", op |-> 0, buf |-> <<>>, seq |-> 0, reply |-> NoReply,
     snap |-> state, json |-> TRUE]

\* An entry whose bytes after the op byte are no JSON.
CorruptStreamEntry(e) == [e EXCEPT !.json = FALSE]

\* decodeMsgDelete(buf[1:])
decodeMsgDelete(e) == [err |-> ~e.json, seq |-> e.seq, reply |-> e.reply]

\* decodeStreamPurge(buf[1:])
decodeStreamPurge(e) == [err |-> ~e.json, reply |-> e.reply]

----------------------------------------------------------------------------
(* The stream's message store.  Messages are kept by sequence; a message's *)
(* subject, body and timestamp are those its sequence determines.          *)

Min(S) == CHOOSE x \in S : \A y \in S : x <= y

\* store.State(): FirstSeq, LastSeq and the interior sequences that are gone.
StoreState(store) ==
    [first |-> store.first, last |-> store.last,
     deleted |-> {q \in store.first..store.last : q \notin store.msgs}]

\* store.StoreMsg
StoreMsg(store) ==
    [first |-> IF store.msgs = {} THEN store.last + 1 ELSE store.first,
     last |-> store.last + 1,
     msgs |-> store.msgs \cup {store.last + 1}]

\* store.RemoveMsg / store.EraseMsg: the store afterwards (whether the message
\* was removed is seq \in store.msgs).
RemoveMsg(store, seq) ==
    LET left == store.msgs \ {seq}
    IN  IF seq \notin store.msgs THEN store
        ELSE [store EXCEPT !.msgs = left,
                           !.first = IF left = {} THEN store.last + 1 ELSE Min(left)]

\* store.Purge: the number purged is Cardinality(store.msgs).
Purge(store) == [store EXCEPT !.msgs = {}, !.first = store.last + 1]

\* store.Compact(seq): messages below seq go.
Compact(store, seq) ==
    LET left == {q \in store.msgs : q >= seq}
    IN  [store EXCEPT !.msgs = left, !.first = IF left = {} THEN seq ELSE Min(left)]

\* What a call into the store returns as its error, the empty string for nil.
StoreErrs == {"", "store failed"}

\* mset.EraseMsg(seq): the store afterwards, whether the message was removed
\* and the error.  storeErr is what the store returns; a store that returns an
\* error has removed nothing.
EraseMsg(store, seq, storeErr) ==
    IF storeErr # "" THEN [store |-> store, removed |-> FALSE, err |-> storeErr]
    ELSE [store |-> RemoveMsg(store, seq), removed |-> seq \in store.msgs, err |-> ""]

\* mset.Purge(): the store afterwards, the number purged and the error.
msetPurge(store, storeErr) ==
    IF storeErr # "" THEN [store |-> store, purged |-> 0, err |-> storeErr]
    ELSE [store |-> Purge(store), purged |-> Cardinality(store.msgs), err |-> ""]

Foo == <<102, 111, 111>>

\* store.LoadMsg(seq): subject, header, body, timestamp, error.
LoadMsg(store, seq) ==
    IF seq \in store.msgs
    THEN [err |-> FALSE, subj |-> Foo, hdr |-> <<>>, msg |-> <<seq % 256>>, ts |-> seq]
    ELSE [err |-> TRUE, subj |-> <<>>, hdr |-> <<>>, msg |-> <<>>, ts |-> 0]

\* mset.processJetStreamMsg(subject, reply, hdr, msg, lseq, ts) in clustered
\* mode: errLastSeqMismatch unless lseq is the stream's last sequence.
\* storeErr is what the store's write returns, the empty string for nil.
processJetStreamMsg(store, lseq, storeErr) ==
    IF lseq # store.last
    THEN [store |-> store, err |-> "errLastSeqMismatch"]
    ELSE IF storeErr # "" THEN [store |-> store, err |-> storeErr]
    ELSE [store |-> StoreMsg(store), err |-> ""]

----------------------------------------------------------------------------
(* The stream replicator's apply path.                                     *)

\* The stream the stream and catch-up specifications replicate.
TheAccount == "A1"
TheStream == "S1"

StreamResponse(st, kind, reply, ok, purged, err) ==
    [srv |-> st.id, kind |-> kind, acct |-> TheAccount, stream |-> TheStream,
     reply |-> reply, ok |-> ok, purged |-> purged, err |-> err]

\* calculateSyncRequest(state, snap): Nil when already caught up.
calculateSyncRequest(state, snap) ==
    IF state.last >= snap.last THEN Nil
    ELSE [nil |-> FALSE, first |-> state.last + 1, last |-> snap.last]

\* mset.processSnapshotDeletes(snap)
RECURSIVE removeDeleted(_, _, _)
removeDeleted(store, dels, last) ==
    IF dels = {} THEN store
    ELSE LET d == Min(dels)
         IN  removeDeleted(IF d <= last THEN RemoveMsg(store, d) ELSE store,
                           dels \ {d}, last)

\* A variant of processSnapshotDeletes that erases every sequence the snapshot
\* lists as deleted, whatever the store's last sequence, and does not compact.
processSnapshotDeletes_DeletesOnly(store, snap) ==
    removeDeleted(store, snap.deleted, store.last)

processSnapshotDeletes(store, snap) ==
    LET st1 == IF snap.first > store.first THEN Compact(store, snap.first) ELSE store
    IN  removeDeleted(st1, snap.deleted, st1.last)

\* The monitor of a stream's group runs a handler as a sequence of sections:
\* each operator below is one of them and gives, in todo, the sections that
\* follow it, as the records it is called with.

\* mset.processSnapshot(buf) up to the return of processSnapshotDeletes: a
\* snapshot that does not unmarshal is dropped.
processSnapshot(store, e) ==
    IF ~e.json THEN [store |-> store, panic |-> FALSE, todo |-> <<>>]
    ELSE [store |-> processSnapshotDeletes(store, e.snap), panic |-> FALSE,
          todo |-> <<[op |-> "processSnapshotSync", snap |-> e.snap]>>]

\* processSnapshot from mset.mu.Lock() to mset.mu.Unlock(): the store's state
\* is read and the sync request calculated.
processSnapshotSync(store, f) ==
    LET sreq == calculateSyncRequest(StoreState(store), f.snap)
    IN  IF sreq = Nil THEN <<>>
        ELSE <<[op |-> "sysSubscribe", sreq |-> sreq, snap |-> f.snap]>>

\* processSnapshot, sub, _ := s.sysSubscribe(reply, mset.handleClusterSyncResponses):
\* the subscriptions afterwards, sub being the new one of server id.
processSnapshotSubscribe(subs, id, f) ==
    LET sub == [id |-> Cardinality(subs) + 1, srv |-> id]
    IN  [subs |-> subs \cup {sub},
         todo |-> <<[op |-> "replaySub", sub |-> sub, sreq |-> f.sreq, snap |-> f.snap]>>]

\* processSnapshot, mset.replaySub = sub under mset.mu.
processSnapshotReplaySub(replaySub, id, f) ==
    [replaySub |-> [replaySub EXCEPT ![id] = f.sub.id],
     todo |-> <<[op |-> "sendSyncRequest", sub |-> f.sub, sreq |-> f.sreq, snap |-> f.snap]>>]

\* processSnapshot, s.sendInternalMsgLocked(subject, reply, nil, sreq): the
\* request as each subscriber of the sync subject gets it.  The request
\* remembers the snapshot it was calculated from, which no code reads.
processSnapshotSend(id, subscribers, f) ==
    [at \in subscribers |->
        [ok |-> TRUE, to |-> id, reply |-> f.sub.id, first |-> f.sreq.first,
         last |-> f.sreq.last, snap |-> f.snap]]

\* A variant of applyPurgeRespond that answers on every replica.
applyPurgeRespond_AnyReplica(st, f) ==
    [panic |-> FALSE,
     todo |-> <<[op |-> "sendAPIResponse",
                 resp |-> IF f.err # ""
                          THEN StreamResponse(st, "streamPurge", f.reply, FALSE, 0, f.err)
                          ELSE StreamResponse(st, "streamPurge", f.reply, TRUE, f.purged,
                                              "")]>>]

\* applyStreamEntries, case purgeStreamOp, from js.mu.RLock() on: isLeader is
\* read under the lock and the leader builds its response.
applyPurgeRespond(st, f) ==
    LET isLeader == isStreamLeader(st, TheAccount, TheStream)
    IN  IF isLeader = "panic" THEN [panic |-> TRUE, todo |-> <<>>]
        ELSE IF isLeader = "false" THEN [panic |-> FALSE, todo |-> <<>>]
        ELSE [panic |-> FALSE,
              todo |-> <<[op |-> "sendAPIResponse",
                          resp |-> IF f.err # ""
                                   THEN StreamResponse(st, "streamPurge", f.reply, FALSE, 0,
                                                       f.err)
                                   ELSE StreamResponse(st, "streamPurge", f.reply, TRUE,
                                                       f.purged, "")]>>]

\* applyStreamEntries, case purgeStreamOp, up to the return of mset.Purge().
applyPurge(store, e, storeErr) ==
    LET sp == decodeStreamPurge(e)
        r == msetPurge(store, storeErr)
    IN  IF sp.err THEN [store |-> store, panic |-> TRUE, todo |-> <<>>]
        ELSE [store |-> r.store, panic |-> FALSE,
              todo |-> <<[op |-> "applyPurgeRespond", reply |-> sp.reply,
                          purged |-> r.purged, err |-> r.err]>>]

\* applyStreamEntries, case deleteMsgOp, from js.mu.RLock() on.
applyMsgDeleteRespond(st, f) ==
    LET isLeader == isStreamLeader(st, TheAccount, TheStream)
    IN  IF isLeader = "panic" THEN [panic |-> TRUE, todo |-> <<>>]
        ELSE IF isLeader = "false" THEN [panic |-> FALSE, todo |-> <<>>]
        ELSE [panic |-> FALSE,
              todo |-> <<[op |-> "sendAPIResponse",
                          resp |-> IF f.err # ""
                                   THEN StreamResponse(st, "msgDelete", f.reply, FALSE, 0, f.err)
                                   ELSE IF ~f.removed
                                   THEN StreamResponse(st, "msgDelete", f.reply, FALSE, 0,
                                                       "sequence not found")
                                   ELSE StreamResponse(st, "msgDelete", f.reply, TRUE, 0, "")]>>]

\* applyStreamEntries, case deleteMsgOp, up to the return of mset.EraseMsg(seq).
applyMsgDelete(store, e, storeErr) ==
    LET md == decodeMsgDelete(e)
        r == EraseMsg(store, md.seq, storeErr)
    IN  IF md.err THEN [store |-> store, panic |-> TRUE, todo |-> <<>>]
        ELSE [store |-> r.store, panic |-> FALSE,
              todo |-> <<[op |-> "applyMsgDeleteRespond", reply |-> md.reply,
                          removed |-> r.removed, err |-> r.err]>>]

\* applyStreamEntries, case streamMsgOp
applyStreamMsg_SkipAnyError(store, e, storeErr) ==
    LET d == decodeStreamMsg(Drop(e.buf, 1))
        r == processJetStreamMsg(store, d.lseq, storeErr)
    IN  IF d.err THEN [store |-> store, panic |-> TRUE, todo |-> <<>>]
        ELSE [store |-> r.store, panic |-> FALSE, todo |-> <<>>]

applyStreamMsg(store, e, storeErr) ==
    LET d == decodeStreamMsg(Drop(e.buf, 1))
        r == processJetStreamMsg(store, d.lseq, storeErr)
    IN  IF d.err THEN [store |-> store, panic |-> TRUE, todo |-> <<>>]
        ELSE IF r.err \notin {"", "errLastSeqMismatch"}
        THEN [store |-> store, panic |-> TRUE, todo |-> <<>>]
        ELSE [store |-> r.store, panic |-> FALSE, todo |-> <<>>]

\* js.applyStreamEntries(mset, ce) for one entry of the committed batch, up to
\* the end of the first section of the entry's case.
applyStreamEntries(store, e, storeErr) ==
    IF e.type = "snapshot" THEN processSnapshot(store, e)
    ELSE IF e.op = streamMsgOp THEN applyStreamMsg(store, e, storeErr)
    ELSE IF e.op = deleteMsgOp THEN applyMsgDelete(store, e, storeErr)
    ELSE IF e.op = purgeStreamOp THEN applyPurge(store, e, storeErr)
    ELSE [store |-> store, panic |-> TRUE, todo |-> <<>>]

\* What node.Propose returns: nil (the empty string) or an error.
ProposeErrs == {"", "propose failed"}

\* The reply subjects of a publish: none, or the bytes of a subject.
PubReplies == {<<>>, <<114>>}

\* The publish-ack error put on the send queue: jsPubMsg{reply, response}.
PubAckError(reply, err) ==
    [reply |-> reply, stream |-> TheStream, code |-> 503, desc |-> err]

processClusteredInboundMsg_NoSnap(store, nlseq, noAck, isLeader, proposeErr, subject, reply, msg, ts) ==
    LET canRespond == ~noAck /\ Len(reply) > 0 /\ isLeader
        n == nlseq
    IN  [nlseq |-> IF proposeErr # "" THEN n ELSE n + 1,
         prop |-> StreamMsgEntry(encodeStreamMsg(subject, reply, <<>>, msg, n, ts)),
         sendq |-> IF proposeErr # "" /\ canRespond
                   THEN <<PubAckError(reply, proposeErr)>> ELSE <<>>,
         err |-> proposeErr]

processClusteredInboundMsg_IncAlways(store, nlseq, noAck, isLeader, proposeErr, subject, reply, msg, ts) ==
    LET canRespond == ~noAck /\ Len(reply) > 0 /\ isLeader
        n == IF nlseq < store.last THEN store.last ELSE nlseq
    IN  [nlseq |-> n + 1,
         prop |-> StreamMsgEntry(encodeStreamMsg(subject, reply, <<>>, msg, n, ts)),
         sendq |-> IF proposeErr # "" /\ canRespond
                   THEN <<PubAckError(reply, proposeErr)>> ELSE <<>>,
         err |-> proposeErr]

\* mset.processClusteredInboundMsg(subject, reply, hdr, msg): nlseq afterwards,
\* the entry handed to Propose, what is put on the send queue and the error
\* returned.  proposeErr is what node.Propose returns, the empty string for nil.
processClusteredInboundMsg(store, nlseq, noAck, isLeader, proposeErr, subject, reply, msg, ts) ==
    LET canRespond == ~noAck /\ Len(reply) > 0 /\ isLeader
        n == IF nlseq < store.last THEN store.last ELSE nlseq
    IN  [nlseq |-> IF proposeErr # "" THEN n ELSE n + 1,
         prop |-> StreamMsgEntry(encodeStreamMsg(subject, reply, <<>>, msg, n, ts)),
         sendq |-> IF proposeErr # "" /\ canRespond
                   THEN <<PubAckError(reply, proposeErr)>> ELSE <<>>,
         err |-> proposeErr]

\* s.jsClusteredStreamPurgeRequest(ci, stream, subject, reply, rmsg)
jsClusteredStreamPurgeRequest(st, account, stream, reply) ==
    LET sa == streamAssignment(st.streams, account, stream)
    IN  IF sa = Nil \/ ~sa.node THEN <<>> ELSE <<encodeStreamPurge(reply)>>

\* s.jsClusteredMsgDeleteRequest(ci, stream, subject, reply, seq, rmsg)
jsClusteredMsgDeleteRequest(st, account, stream, reply, seq) ==
    LET sa == streamAssignment(st.streams, account, stream)
    IN  IF sa = Nil \/ ~sa.node THEN <<>> ELSE <<encodeMsgDelete(seq, reply)>>

----------------------------------------------------------------------------
(* Catch-up: runCatchup on the sender, handleClusterSyncResponses on the   *)
(* receiver.                                                               *)

\* A variant of sendNextBatch that frames a message with its own sequence.
sendNextBatch_OwnSeq(store, cu) ==
    IF ~(cu.seq < cu.last /\ cu.out <= cu.max) THEN [cu EXCEPT !.pc = "select"]
    ELSE LET m == LoadMsg(store, cu.seq)
             em == encodeStreamMsg(m.subj, <<>>, m.hdr, m.msg, cu.seq, m.ts)
         IN  [cu EXCEPT !.seq = @ + 1,
                        !.out = @ + Len(em),
                        !.wire = Append(@, [data |-> em, reply |-> Len(em)])]

\* A variant of sendNextBatch that sends the rest of the range whatever is in
\* flight.
sendNextBatch_NoLimit(store, cu) ==
    IF ~(cu.seq < cu.last) THEN [cu EXCEPT !.pc = "select"]
    ELSE LET m == LoadMsg(store, cu.seq)
             em == encodeStreamMsg(m.subj, <<>>, m.hdr, m.msg, cu.seq - 1, m.ts)
         IN  [cu EXCEPT !.seq = @ + 1,
                        !.out = @ + Len(em),
                        !.wire = Append(@, [data |-> em, reply |-> Len(em)])]

\* sendNextBatch(), one pass of its loop: the test seq < last and out <= maxOut
\* (cu.max, which is maxOut unless a specification scales it down), out being
\* loaded at this pass, and the body when the test holds; the loop is left for
\* the select when it does not.
sendNextBatch(store, cu) ==
    IF ~(cu.seq < cu.last /\ cu.out <= cu.max) THEN [cu EXCEPT !.pc = "select"]
    ELSE LET m == LoadMsg(store, cu.seq)
             em == encodeStreamMsg(m.subj, <<>>, m.hdr, m.msg, cu.seq - 1, m.ts)
         IN  [cu EXCEPT !.seq = @ + 1,
                        !.out = @ + Len(em),
                        !.wire = Append(@, [data |-> em, reply |-> Len(em)])]

\* mset.handleClusterSyncRequest(sub, c, subject, reply, msg): the goroutines
\* afterwards; a request that does not unmarshal starts none.
handleClusterSyncRequest(runs, id, req, max) ==
    IF ~req.ok THEN runs
    ELSE Append(runs, [state |-> "started", to |-> req.to, from |-> id, reply |-> req.reply,
                       first |-> req.first, last |-> req.last, snap |-> req.snap,
                       seq |-> 0, out |-> 0, token |-> 0, blocked |-> FALSE,
                       pc |-> "start", wire |-> <<>>, acks |-> <<>>, max |-> max])

\* mset.runCatchup(sendSubject, sreq) up to its select loop: nextBatchC is
\* made and primed, the ack subject subscribed, and the goroutine returns when
\* the stream has no quit channel (qchNil).
runCatchup(cu, qchNil) ==
    LET cu1 == [cu EXCEPT !.out = 0, !.token = 1, !.seq = cu.first]
    IN  IF qchNil THEN [cu1 EXCEPT !.state = "quit", !.pc = "return"]
        ELSE [cu1 EXCEPT !.state = "running", !.pc = "select"]

\* mset.handleClusterSyncResponses(sub, c, subject, reply, msg): the receiver's
\* store afterwards and the acks it sends.
handleClusterSyncResponses(store, m) ==
    IF Len(m.data) < 1 THEN [store |-> store, acks |-> <<>>]
    ELSE IF m.data[1] = streamMsgOp
    THEN [store |-> store, acks |-> IF m.reply # 0 THEN <<m.reply>> ELSE <<>>]
    ELSE [store |-> store, acks |-> <<>>]

----------------------------------------------------------------------------
(* SpecStream: one stream replicated on both servers.  The group's nodes   *)
(* change leader and post the change to their monitors; the leader         *)
(* proposes publishes; every replica's monitor applies the committed       *)
(* entries, section by section.                                            *)

MaxStreamLog == 3
\* The publish calls of a server that wait to send their answer, at most.
MaxPubWait == 1
\* The sequences delete requests name.
DeleteSeqs == {1, 2}

\* The snapshots a replica installs with its store behind them, and the
\* sync requests that get a sender.
MaxInstalls == 2
MaxRuns == 1

\* The reply subject of the publishes of a stream's clients.
StreamReplies == {<<114>>}

\* The stream's assignment, as the meta log delivered it to both servers.
TheSA ==
    NewSA(TheAccount, TheStream, Servers, groupName("S", Servers, 1), 1, Cardinality(Servers))

\* The name of the stream's group.
TheGroup == TheSA.gname

StreamInit ==
    /\ tjs \in Each([s \in Servers |-> Done(processStreamAssignment(NewJS(s), TheSA))])
    /\ tstore = [s \in Servers |-> NewStore]
    /\ tnlseq = [s \in Servers |-> 0]
    /\ tlog = <<>>
    /\ tapplied = [s \in Servers |-> 0]
    /\ tsnap = [index |-> 0, state |-> NoStreamState]
    /\ tact = NoAct
    /\ tcu = NoCatchup
    /\ tpub = [s \in Servers |-> <<>>]
    /\ SnapIdle
    /\ MetaIdle
    /\ ConsumerIdle
    /\ FuncIdle

\* The server's node of the stream's group reports Leader().
LeadsStream(s) ==
    ~tjs[s].panic /\ isStreamLeader(tjs[s], TheAccount, TheStream) = "true"

\* mset.isLeader(): the server's stream object is in leader mode.
InLeaderMode(s) == ~tjs[s].panic /\ <<TheAccount, TheStream>> \in tjs[s].leaders

\* The stream monitor of server s waits in its select.
MonitorIdle(s) ==
    /\ ~tjs[s].panic
    /\ TheGroup \in DOMAIN tjs[s].mons
    /\ tjs[s].mons[TheGroup].todo = <<>>

\* The stream monitor of server s is in a handler, at a section of one of ops.
MonitorAt(s, ops) ==
    /\ ~tjs[s].panic
    /\ TheGroup \in DOMAIN tjs[s].mons
    /\ tjs[s].mons[TheGroup].todo # <<>>
    /\ Head(tjs[s].mons[TheGroup].todo).op \in ops

\* The server state once its stream monitor has run a section that leaves it
\* the sections of r.todo before the rest of its handler, or panics.
MonitorGoesOn(st, r) ==
    IF r.panic THEN panicNow(st)
    ELSE [st EXCEPT !.mons[TheGroup].todo = r.todo \o Tail(@)]

\* The node of the stream's group changes state on a server: it wins an
\* election that no live node holds, or steps down.
StreamNodeLeaderChange ==
    \E s \in Servers :
        LET isLeader == TheGroup \notin tjs[s].lead
        IN  /\ ~tjs[s].panic
            /\ TheGroup \in tjs[s].nodes
            /\ Len(LeadChangeC(tjs[s], TheGroup)) < MaxLeadChanges
            /\ isLeader => \A o \in Servers : tjs[o].panic \/ TheGroup \notin tjs[o].lead
            /\ tjs' = [tjs EXCEPT ![s] = nodeLeaderChange(@, TheGroup, isLeader)]
            /\ tact' = NoAct
            /\ UNCHANGED <<tstore, tnlseq, tlog, tapplied, tsnap, tcu, tpub,
                           svars, mvars, cvars, fvars>>

\* monitorStreamRaftGroup, case isLeader := <-lch: processStreamLeaderChange up
\* to its js.mu.Unlock().
StreamLeaderChange ==
    \E s \in Servers :
        /\ MonitorIdle(s)
        /\ LeadChangeC(tjs[s], TheGroup) # <<>>
        /\ tjs' = [tjs EXCEPT ![s] = Quiesce(monitorLeaderChange(@, TheGroup))]
        /\ tact' = NoAct
        /\ UNCHANGED <<tstore, tnlseq, tlog, tapplied, tsnap, tcu, tpub,
                       svars, mvars, cvars, fvars>>

\* processStreamLeaderChange once js.mu is released: the answer to the request
\* that created the stream.
StreamLeaderRespond ==
    \E s \in Servers :
        /\ MonitorAt(s, {"streamCreateResponse"})
        /\ LET st == monitorStep(tjs[s], TheGroup)
           IN  /\ tjs' = [tjs EXCEPT ![s] = Quiesce(st)]
               /\ tact' = [op |-> "respond", srv |-> s, resp |-> st.resp]
        /\ UNCHANGED <<tstore, tnlseq, tlog, tapplied, tsnap, tcu, tpub,
                       svars, mvars, cvars, fvars>>

\* A publish reaches a server whose stream is in leader mode:
\* processClusteredInboundMsg up to mset.mu.Unlock().  The node accepts a
\* proposal only while it leads.  The entry remembers its proposer (by), which
\* no code reads.
Publish ==
    \E s \in Servers, err \in ProposeErrs, reply \in StreamReplies :
        /\ InLeaderMode(s)
        /\ err = "" => LeadsStream(s)
        /\ err = "" => Len(tlog) < MaxStreamLog
        /\ LET n == IF tnlseq[s] < tstore[s].last THEN tstore[s].last ELSE tnlseq[s]
               r == processClusteredInboundMsg(tstore[s], tnlseq[s], FALSE, TRUE, err, Foo,
                                               reply, <<(n + 1) % 256>>, n + 1)
           IN  /\ r.sendq # <<>> => Len(tpub[s]) < MaxPubWait
               /\ tlog' = IF r.err = "" THEN Append(tlog, r.prop @@ [by |-> s]) ELSE tlog
               /\ tnlseq' = [tnlseq EXCEPT ![s] = r.nlseq]
               /\ tpub' = [tpub EXCEPT ![s] = @ \o r.sendq]
        /\ tact' = NoAct
        /\ UNCHANGED <<tjs, tstore, tapplied, tsnap, tcu, svars, mvars, cvars, fvars>>

\* processClusteredInboundMsg after mset.mu.Unlock(): the 503 goes on the send
\* queue.
PublishRespond ==
    \E s \in Servers :
        /\ ~tjs[s].panic
        /\ \E i \in 1..Len(tpub[s]) :
              /\ tpub' = [tpub EXCEPT ![s] = SubSeq(@, 1, i - 1) \o SubSeq(@, i + 1, Len(@))]
              /\ tact' = [op |-> "publish", srv |-> s, resp |-> <<tpub[s][i]>>]
        /\ UNCHANGED <<tjs, tstore, tnlseq, tlog, tapplied, tsnap, tcu,
                       svars, mvars, cvars, fvars>>

\* A purge request reaches the stream leader.
PurgeRequest ==
    \E s \in Servers :
        /\ LeadsStream(s)
        /\ Len(tlog) < MaxStreamLog
        /\ tlog' = tlog \o jsClusteredStreamPurgeRequest(tjs[s], TheAccount, TheStream,
                                                         Len(tlog) + 1)
        /\ tact' = NoAct
        /\ UNCHANGED <<tjs, tstore, tnlseq, tapplied, tsnap, tcu, tpub,
                       svars, mvars, cvars, fvars>>

\* A message delete request reaches the stream leader.
MsgDeleteRequest ==
    \E s \in Servers, seq \in DeleteSeqs :
        /\ LeadsStream(s)
        /\ Len(tlog) < MaxStreamLog
        /\ tlog' = tlog \o jsClusteredMsgDeleteRequest(tjs[s], TheAccount, TheStream,
                                                       Len(tlog) + 1, seq)
        /\ tact' = NoAct
        /\ UNCHANGED <<tjs, tstore, tnlseq, tapplied, tsnap, tcu, tpub,
                       svars, mvars, cvars, fvars>>

\* monitorStreamRaftGroup, case ce := <-ach, for a committed entry of the log:
\* applyStreamEntries up to the return of the entry's call into the store;
\* n.Applied(ce.Index) ends the handler.
ApplyStreamEntry ==
    \E s \in Servers, storeErr \in StoreErrs :
        /\ MonitorIdle(s)
        /\ tapplied[s] < Len(tlog)
        /\ LET index == tapplied[s] + 1
               r == applyStreamEntries(tstore[s], tlog[index], storeErr)
           IN  /\ tstore' = [tstore EXCEPT ![s] = r.store]
               /\ tjs' = [tjs EXCEPT ![s] =
                             IF r.panic THEN panicNow(@)
                             ELSE [@ EXCEPT !.mons[TheGroup].todo =
                                      r.todo \o <<[op |-> "Applied", index |-> index]>>]]
        /\ tact' = NoAct
        /\ UNCHANGED <<tnlseq, tlog, tapplied, tsnap, tcu, tpub, svars, mvars, cvars, fvars>>

\* applyStreamEntries, the purge and delete cases from js.mu.RLock() on.
ApplyStreamRespond ==
    \E s \in Servers :
        /\ MonitorAt(s, {"applyPurgeRespond", "applyMsgDeleteRespond"})
        /\ LET f == Head(tjs[s].mons[TheGroup].todo)
               r == IF f.op = "applyPurgeRespond" THEN applyPurgeRespond(tjs[s], f)
                    ELSE applyMsgDeleteRespond(tjs[s], f)
           IN  tjs' = [tjs EXCEPT ![s] = MonitorGoesOn(@, r)]
        /\ tact' = NoAct
        /\ UNCHANGED <<tstore, tnlseq, tlog, tapplied, tsnap, tcu, tpub,
                       svars, mvars, cvars, fvars>>

\* applyStreamEntries, s.sendAPIResponse of the purge and delete cases.
ApplyStreamSend ==
    \E s \in Servers :
        /\ MonitorAt(s, {"sendAPIResponse"})
        /\ tjs' = [tjs EXCEPT ![s] = MonitorGoesOn(@, [panic |-> FALSE, todo |-> <<>>])]
        /\ tact' = [op |-> "apply", srv |-> s,
                    resp |-> <<Head(tjs[s].mons[TheGroup].todo).resp>>]
        /\ UNCHANGED <<tstore, tnlseq, tlog, tapplied, tsnap, tcu, tpub,
                       svars, mvars, cvars, fvars>>

\* monitorStreamRaftGroup, n.Applied(ce.Index).
StreamApplied ==
    \E s \in Servers :
        /\ MonitorAt(s, {"Applied"})
        /\ tapplied' = [tapplied EXCEPT ![s] = Head(tjs[s].mons[TheGroup].todo).index]
        /\ tjs' = [tjs EXCEPT ![s] = MonitorGoesOn(@, [panic |-> FALSE, todo |-> <<>>])]
        /\ tact' = NoAct
        /\ UNCHANGED <<tstore, tnlseq, tlog, tsnap, tcu, tpub, svars, mvars, cvars, fvars>>

\* JetStreamSnapshotStream on the server whose node leads: the node snapshots
\* the store's state at the index it has been told is applied.
StreamSnapshot ==
    \E s \in Servers :
        /\ LeadsStream(s)
        /\ tapplied[s] > tsnap.index
        /\ tsnap' = [index |-> tapplied[s], state |-> StoreState(tstore[s])]
        /\ tact' = NoAct
        /\ UNCHANGED <<tjs, tstore, tnlseq, tlog, tapplied, tcu, tpub,
                       svars, mvars, cvars, fvars>>

\* monitorStreamRaftGroup, case ce := <-ach, for the snapshot the node of a
\* replica behind it delivers: processSnapshot up to the return of
\* processSnapshotDeletes.
InstallStreamSnapshot ==
    \E s \in Servers :
        /\ MonitorIdle(s)
        /\ tapplied[s] < tsnap.index
        /\ Cardinality(tcu.subs) < MaxInstalls
        /\ LET r == applyStreamEntries(tstore[s], StreamSnapshotEntry(tsnap.state), "")
           IN  /\ tstore' = [tstore EXCEPT ![s] = r.store]
               /\ tjs' = [tjs EXCEPT ![s].mons[TheGroup].todo =
                             r.todo \o <<[op |-> "Applied", index |-> tsnap.index]>>]
        /\ tact' = [op |-> "install", srv |-> s, resp |-> <<"processSnapshotDeletes">>]
        /\ UNCHANGED <<tnlseq, tlog, tapplied, tsnap, tcu, tpub, svars, mvars, cvars, fvars>>

\* processSnapshot, the section under mset.mu that calculates the sync request.
InstallSyncRequest ==
    \E s \in Servers :
        /\ MonitorAt(s, {"processSnapshotSync"})
        /\ LET f == Head(tjs[s].mons[TheGroup].todo)
           IN  tjs' = [tjs EXCEPT ![s] =
                          MonitorGoesOn(@, [panic |-> FALSE,
                                            todo |-> processSnapshotSync(tstore[s], f)])]
        /\ tact' = NoAct
        /\ UNCHANGED <<tstore, tnlseq, tlog, tapplied, tsnap, tcu, tpub,
                       svars, mvars, cvars, fvars>>

\* processSnapshot, s.sysSubscribe(reply, mset.handleClusterSyncResponses).
InstallSubscribe ==
    \E s \in Servers :
        /\ MonitorAt(s, {"sysSubscribe"})
        /\ LET r == processSnapshotSubscribe(tcu.subs, s, Head(tjs[s].mons[TheGroup].todo))
           IN  /\ tcu' = [tcu EXCEPT !.subs = r.subs]
               /\ tjs' = [tjs EXCEPT ![s] = MonitorGoesOn(@, [panic |-> FALSE, todo |-> r.todo])]
        /\ tact' = [op |-> "install", srv |-> s, resp |-> <<"sysSubscribe">>]
        /\ UNCHANGED <<tstore, tnlseq, tlog, tapplied, tsnap, tpub, svars, mvars, cvars, fvars>>

\* processSnapshot, mset.replaySub = sub.
InstallReplaySub ==
    \E s \in Servers :
        /\ MonitorAt(s, {"replaySub"})
        /\ LET r == processSnapshotReplaySub(tcu.replaySub, s, Head(tjs[s].mons[TheGroup].todo))
           IN  /\ tcu' = [tcu EXCEPT !.replaySub = r.replaySub]
               /\ tjs' = [tjs EXCEPT ![s] = MonitorGoesOn(@, [panic |-> FALSE, todo |-> r.todo])]
        /\ tact' = NoAct
        /\ UNCHANGED <<tstore, tnlseq, tlog, tapplied, tsnap, tpub, svars, mvars, cvars, fvars>>

\* The elements of a set of servers, one after the other.
RECURSIVE ServerSeq(_)
ServerSeq(S) ==
    IF S = {} THEN <<>>
    ELSE LET x == CHOOSE y \in S : TRUE IN <<x>> \o ServerSeq(S \ {x})

\* processSnapshot, s.sendInternalMsgLocked(subject, reply, nil, sreq): the
\* request reaches the servers whose stream is in leader mode, which hold the
\* subscription to the sync subject.
InstallSend ==
    \E s \in Servers :
        /\ MonitorAt(s, {"sendSyncRequest"})
        /\ LET subscribers == {o \in Servers : InLeaderMode(o)}
               r == processSnapshotSend(s, subscribers, Head(tjs[s].mons[TheGroup].todo))
           IN  tcu' = [tcu EXCEPT !.reqs = @ \o [i \in 1..Cardinality(subscribers) |->
                                                    r[ServerSeq(subscribers)[i]]
                                                        @@ [at |-> ServerSeq(subscribers)[i]]]]
        /\ tjs' = [tjs EXCEPT ![s] = MonitorGoesOn(@, [panic |-> FALSE, todo |-> <<>>])]
        /\ tact' = [op |-> "install", srv |-> s, resp |-> <<"sendInternalMsgLocked">>]
        /\ UNCHANGED <<tstore, tnlseq, tlog, tapplied, tsnap, tpub, svars, mvars, cvars, fvars>>

\* The sequence without its element i.
Without(seq, i) == SubSeq(seq, 1, i - 1) \o SubSeq(seq, i + 1, Len(seq))

\* mset.handleClusterSyncRequest on a server that holds the subscription to the
\* sync subject, for the first request that reached it.
HandleSyncRequest ==
    \E s \in Servers :
        /\ InLeaderMode(s)
        /\ Len(tcu.runs) < MaxRuns
        /\ \E i \in 1..Len(tcu.reqs) :
              /\ tcu.reqs[i].at = s
              /\ \A j \in 1..(i - 1) : tcu.reqs[j].at # s
              /\ tcu' = [tcu EXCEPT !.reqs = Without(@, i),
                                    !.runs = handleClusterSyncRequest(@, s, tcu.reqs[i],
                                                                      tcu.max)]
        /\ tact' = NoAct
        /\ UNCHANGED <<tjs, tstore, tnlseq, tlog, tapplied, tsnap, tpub,
                       svars, mvars, cvars, fvars>>

\* The goroutine of a sync request begins: runCatchup up to its select loop.
CatchupStart ==
    \E i \in DOMAIN tcu.runs, qchNil \in BOOLEAN :
        /\ tcu.runs[i].state = "started"
        /\ ~tjs[tcu.runs[i].from].panic
        /\ tcu' = [tcu EXCEPT !.runs[i] = runCatchup(@, qchNil)]
        /\ tact' = NoAct
        /\ UNCHANGED <<tjs, tstore, tnlseq, tlog, tapplied, tsnap, tpub,
                       svars, mvars, cvars, fvars>>

\* The sender of run i waits in the select of runCatchup.
InSelect(i) ==
    /\ tcu.runs[i].state = "running"
    /\ tcu.runs[i].pc = "select"
    /\ ~tjs[tcu.runs[i].from].panic

\* runCatchup, case <-nextBatchC: done when seq >= last, else sendNextBatch.
\* An ack callback that waited to signal nextBatchC fills it again and returns.
CatchupNextBatch ==
    \E i \in DOMAIN tcu.runs :
        /\ InSelect(i)
        /\ tcu.runs[i].token = 1
        /\ LET cu == tcu.runs[i]
               taken == [cu EXCEPT !.token = IF cu.blocked THEN 1 ELSE 0,
                                   !.blocked = FALSE]
           IN  tcu' = [tcu EXCEPT !.runs[i] =
                          IF cu.seq >= cu.last
                          THEN [taken EXCEPT !.state = "done", !.pc = "return"]
                          ELSE [taken EXCEPT !.pc = "sendNextBatch"]]
        /\ tact' = NoAct
        /\ UNCHANGED <<tjs, tstore, tnlseq, tlog, tapplied, tsnap, tpub,
                       svars, mvars, cvars, fvars>>

\* One pass of the loop of sendNextBatch.
CatchupSend ==
    \E i \in DOMAIN tcu.runs :
        /\ tcu.runs[i].state = "running"
        /\ tcu.runs[i].pc = "sendNextBatch"
        /\ ~tjs[tcu.runs[i].from].panic
        /\ tcu' = [tcu EXCEPT !.runs[i] = sendNextBatch(tstore[tcu.runs[i].from], @)]
        /\ tact' = NoAct
        /\ UNCHANGED <<tjs, tstore, tnlseq, tlog, tapplied, tsnap, tpub,
                       svars, mvars, cvars, fvars>>

\* The requester's subscription to the reply subject of run i takes a catch-up
\* message; the ack it sends reaches the sender while the sender's ack
\* subscription lives.
SyncResponse ==
    \E i \in DOMAIN tcu.runs :
        LET cu == tcu.runs[i]
        IN  /\ cu.wire # <<>>
            /\ [id |-> cu.reply, srv |-> cu.to] \in tcu.subs
            /\ ~tjs[cu.to].panic
            /\ LET r == handleClusterSyncResponses(tstore[cu.to], Head(cu.wire))
               IN  /\ tstore' = [tstore EXCEPT ![cu.to] = r.store]
                   /\ tcu' = [tcu EXCEPT !.runs[i].wire = Tail(@),
                                         !.runs[i].acks =
                                             IF cu.state = "running" THEN @ \o r.acks ELSE @]
            /\ tact' = NoAct
            /\ UNCHANGED <<tjs, tnlseq, tlog, tapplied, tsnap, tpub, svars, mvars, cvars, fvars>>

\* The sender's ack subscription takes an ack: out shrinks by the size in the
\* subject, then nextBatchC is signalled with a send that has no default case:
\* while the channel is full the callback waits in it (blocked), and the
\* subscription delivers no further ack until it returns.
SyncAck ==
    \E i \in DOMAIN tcu.runs :
        LET cu == tcu.runs[i]
        IN  /\ cu.state = "running"
            /\ ~tjs[cu.from].panic
            /\ cu.acks # <<>>
            /\ ~cu.blocked
            /\ tcu' = [tcu EXCEPT !.runs[i] =
                          [cu EXCEPT !.out = @ - Head(cu.acks), !.acks = Tail(@),
                                     !.token = 1, !.blocked = (cu.token = 1)]]
            /\ tact' = NoAct
            /\ UNCHANGED <<tjs, tstore, tnlseq, tlog, tapplied, tsnap, tpub,
                           svars, mvars, cvars, fvars>>

\* runCatchup, case <-timeout.C: the activity ticker has fired, and the select
\* takes it whatever else is ready.
CatchupStall ==
    \E i \in DOMAIN tcu.runs :
        /\ InSelect(i)
        /\ tcu' = [tcu EXCEPT !.runs[i].state = "stalled", !.runs[i].pc = "return"]
        /\ tact' = NoAct
        /\ UNCHANGED <<tjs, tstore, tnlseq, tlog, tapplied, tsnap, tpub,
                       svars, mvars, cvars, fvars>>

\* runCatchup, case <-s.quitCh and case <-qch: the server or the stream stops,
\* and the sender returns wherever it is in the range.
CatchupQuit ==
    \E i \in DOMAIN tcu.runs :
        /\ InSelect(i)
        /\ tcu' = [tcu EXCEPT !.runs[i].state = "quit", !.runs[i].pc = "return"]
        /\ tact' = NoAct
        /\ UNCHANGED <<tjs, tstore, tnlseq, tlog, tapplied, tsnap, tpub,
                       svars, mvars, cvars, fvars>>

StreamNext ==
    \/ StreamNodeLeaderChange
    \/ StreamLeaderChange
    \/ StreamLeaderRespond
    \/ Publish
    \/ PublishRespond
    \/ ApplyStreamEntry
    \/ StreamApplied

SpecStream == StreamInit /\ [][StreamNext]_vars

----------------------------------------------------------------------------
(* SpecCatchup: the stream's leader has published MaxCatchupMsgs messages  *)
(* or fewer and deleted some of them; the leader has applied some of the   *)
(* log and the follower no more than the leader.  The replicas go on       *)
(* applying, the leader snapshots, a replica behind a snapshot installs it *)
(* and the catch-up runs.                                                  *)

MaxCatchupMsgs == 2

\* The log of n publishes by one leader followed by the deletes of dels, in
\* ascending order.
RECURSIVE PublishLog(_)
PublishLog(n) ==
    IF n = 0 THEN <<>>
    ELSE LET log == PublishLog(n - 1)
         IN  Append(log, processClusteredInboundMsg(NewStore, n - 1, FALSE, TRUE, "", Foo,
                                                    <<>>, <<n % 256>>, n).prop)

RECURSIVE DeleteLog(_, _)
DeleteLog(dels, at) ==
    IF dels = {} THEN <<>>
    ELSE LET d == Min(dels)
         IN  <<encodeMsgDelete(d, at)>> \o DeleteLog(dels \ {d}, at + 1)

\* The store of a replica that applied the first k entries.
RECURSIVE ApplyPrefix(_, _, _)
ApplyPrefix(store, log, k) ==
    IF k = 0 THEN store
    ELSE applyStreamEntries(ApplyPrefix(store, log, k - 1), log[k], "").store

\* A message on the sync subject that is no sync request.
StrayRequest ==
    [ok |-> FALSE, to |-> "", reply |-> 0, first |-> 0, last |-> 0, snap |-> NoStreamState,
     at |-> "n1"]

\* Both replicas hold the stream, n1 leads it and its monitor has switched the
\* stream to leader mode; n1 has applied the first j entries of log and n2 the
\* first k; stray tells whether a stray message waits on the sync subject.
CatchupFrom(log, n, j, k, stray, max) ==
    LET held(s) == After(NewJS(s), <<[op |-> "processStreamAssignment", sa |-> TheSA]>>
                                      \o (IF s = "n1"
                                          THEN <<[op |-> "lead", g |-> TheGroup]>>
                                          ELSE <<>>))
    IN  /\ tjs \in Each([s \in Servers |-> held(s)])
        /\ tlog = [i \in 1..Len(log) |-> log[i] @@ [by |-> "n1"]]
        /\ tapplied = [s \in Servers |-> IF s = "n1" THEN j ELSE k]
        /\ tstore = [s \in Servers |-> ApplyPrefix(NewStore, log, IF s = "n1" THEN j ELSE k)]
        /\ tnlseq = [s \in Servers |-> IF s = "n1" THEN n ELSE 0]
        /\ tcu = [NoCatchup EXCEPT !.max = max,
                                   !.reqs = IF stray THEN <<StrayRequest>> ELSE <<>>]
        /\ tsnap = [index |-> 0, state |-> NoStreamState]
        /\ tact = NoAct
        /\ tpub = [s \in Servers |-> <<>>]

----------------------------------------------------------------------------
(* SpecPurge: the stream's leader has published MaxPurgeMsgs messages or   *)
(* fewer and each replica has applied some of them.  Purge and delete      *)
(* requests reach the leader, the replicas apply what is committed, and    *)
(* the leadership of the group changes.                                    *)

MaxPurgeMsgs == 2

PurgeInit ==
    /\ \E n \in 0..MaxPurgeMsgs, j \in 0..MaxPurgeMsgs, k \in 0..MaxPurgeMsgs :
          /\ j <= n
          /\ k <= n
          /\ CatchupFrom(PublishLog(n), n, j, k, FALSE, maxOut)
    /\ SnapIdle
    /\ MetaIdle
    /\ ConsumerIdle
    /\ FuncIdle

PurgeNext ==
    \/ StreamNodeLeaderChange
    \/ StreamLeaderChange
    \/ StreamLeaderRespond
    \/ PurgeRequest
    \/ MsgDeleteRequest
    \/ ApplyStreamEntry
    \/ ApplyStreamRespond
    \/ ApplyStreamSend
    \/ StreamApplied

SpecPurge == PurgeInit /\ [][PurgeNext]_vars

----------------------------------------------------------------------------
(* SpecCatchup, the initial states and the steps.                          *)

CatchupInit ==
    /\ \E n \in 1..MaxCatchupMsgs, k \in 0..MaxCatchupMsgs, dels \in SUBSET (1..MaxCatchupMsgs),
          stray \in BOOLEAN :
          /\ k <= n
          /\ dels \subseteq 1..n
          /\ LET log == PublishLog(n) \o DeleteLog(dels, n + 1)
             IN  \E j \in 1..Len(log) :
                    /\ k <= j
                    /\ CatchupFrom(log, n, j, k, stray, maxOut)
    /\ SnapIdle
    /\ MetaIdle
    /\ ConsumerIdle
    /\ FuncIdle

CatchupNext ==
    \/ ApplyStreamEntry
    \/ ApplyStreamRespond
    \/ ApplyStreamSend
    \/ StreamApplied
    \/ StreamSnapshot
    \/ InstallStreamSnapshot
    \/ InstallSyncRequest
    \/ InstallSubscribe
    \/ InstallReplaySub
    \/ InstallSend
    \/ HandleSyncRequest
    \/ CatchupStart
    \/ CatchupNextBatch
    \/ CatchupSend
    \/ SyncResponse
    \/ SyncAck
    \/ CatchupStall
    \/ CatchupQuit

SpecCatchup == CatchupInit /\ [][CatchupNext]_vars

\* The catch-up runs, as indices of tcu.runs.
Runs == DOMAIN tcu.runs

\* C8: once a catch-up run has ended with the sender's success condition, the
\* receiver's LastSeq has reached snap.LastSeq, every sequence of the request's
\* range that the snapshot does not list as deleted is in its store, and no
\* sequence of snap.Deleted is.
C8_CatchupReachesSnapshot ==
    \A i \in Runs :
        LET cu == tcu.runs[i]
        IN  cu.state = "done" =>
               /\ tstore[cu.to].last >= cu.snap.last
               /\ \A q \in cu.first..cu.snap.last :
                     q \notin cu.snap.deleted => q \in tstore[cu.to].msgs
               /\ cu.snap.deleted \cap tstore[cu.to].msgs = {}

\* The section the stream monitor of s is at, and the one it is at after the
\* step.
Section(s) == Head(tjs[s].mons[TheGroup].todo)
SectionAfter(s) == Head(tjs'[s].mons[TheGroup].todo)

\* The monitor of s takes a purge or delete entry from ApplyC in this step and
\* comes back from the store.
TakesPurgeOrDelete(s) ==
    /\ MonitorIdle(s)
    /\ ~tjs'[s].panic
    /\ tjs'[s].mons[TheGroup].todo # <<>>
    /\ SectionAfter(s).op \in {"applyPurgeRespond", "applyMsgDeleteRespond"}

\* The monitor of s, which is in a handler, runs a section of it in this step.
MonitorStepped(s) ==
    \/ tjs'[s].panic
    \/ tjs'[s].mons[TheGroup].todo # tjs[s].mons[TheGroup].todo

\* The response of server s to the purge or delete entry e.
ApplyAnswer(s, e, kind, ok, purged, err) ==
    [srv |-> s, kind |-> kind, acct |-> TheAccount, stream |-> TheStream,
     reply |-> e.reply, ok |-> ok, purged |-> purged, err |-> err]

\* What the monitor of s, back from the store with f, does under js.mu: as
\* leader it goes on to send want, as follower it sends nothing.
RespondsAsLeader(s, f, want) ==
    LET leads == isStreamLeader(tjs[s], TheAccount, TheStream)
        rest == Tail(tjs[s].mons[TheGroup].todo)
    IN  /\ tjs'[s].panic <=> leads = "panic"
        /\ leads = "true" =>
              tjs'[s].mons[TheGroup].todo = <<[op |-> "sendAPIResponse", resp |-> want]>> \o rest
        /\ leads = "false" => tjs'[s].mons[TheGroup].todo = rest

\* A response to a purge or a delete is sent only by a monitor that found
\* itself leader, and is the one it built then.
SendsWhatWasBuilt ==
    tact'.op = "apply" =>
        /\ MonitorAt(tact'.srv, {"sendAPIResponse"})
        /\ tact'.resp = <<Section(tact'.srv).resp>>
        /\ tjs'[tact'.srv].mons[TheGroup].todo = Tail(tjs[tact'.srv].mons[TheGroup].todo)

\* C9 as stated: every replica that applies a purge entry purges its store and
\* one that applies a delete entry erases the sequence; only a replica for which
\* isStreamLeader holds then answers, for a purge with success and the number
\* of messages the store held, for a delete with success if the sequence was
\* removed and "sequence not found" if it was not.
C9_ApplyAllAnswerSuccess ==
    [][ /\ \A s \in Servers :
              /\ TakesPurgeOrDelete(s) =>
                    LET e == tlog[tapplied[s] + 1]
                        f == SectionAfter(s)
                        held == tstore[s].msgs
                    IN  /\ tstore'[s].last = tstore[s].last
                        /\ e.op = purgeStreamOp =>
                              tstore'[s].msgs = {} /\ f.purged = Cardinality(held)
                        /\ e.op = deleteMsgOp =>
                              /\ tstore'[s].msgs = held \ {e.seq}
                              /\ f.removed = (e.seq \in held)
              /\ MonitorAt(s, {"applyPurgeRespond"}) /\ MonitorStepped(s) =>
                    LET e == tlog[tapplied[s] + 1]
                        f == Section(s)
                    IN  RespondsAsLeader(s, f,
                            ApplyAnswer(s, e, "streamPurge", TRUE, f.purged, ""))
              /\ MonitorAt(s, {"applyMsgDeleteRespond"}) /\ MonitorStepped(s) =>
                    LET e == tlog[tapplied[s] + 1]
                        f == Section(s)
                    IN  RespondsAsLeader(s, f,
                            IF f.removed THEN ApplyAnswer(s, e, "msgDelete", TRUE, 0, "")
                            ELSE ApplyAnswer(s, e, "msgDelete", FALSE, 0, "sequence not found"))
        /\ SendsWhatWasBuilt
      ]_vars

\* C9: a replica that applies a purge entry purges its store, and one that
\* applies a delete entry erases the sequence, unless the store returns an
\* error; the replica answers only if isStreamLeader holds once it is back
\* from the store, then exactly once: with the store's error if there was one,
\* else for a purge with success and the number of messages the store held,
\* for a delete with success if the sequence was removed and "sequence not
\* found" if it was not.
C9_ApplyAllAnswerLeader ==
    [][ /\ \A s \in Servers :
              /\ TakesPurgeOrDelete(s) =>
                    LET e == tlog[tapplied[s] + 1]
                        f == SectionAfter(s)
                        held == tstore[s].msgs
                    IN  /\ tstore'[s].last = tstore[s].last
                        /\ f.err # "" => tstore'[s] = tstore[s]
                        /\ (f.err = "" /\ e.op = purgeStreamOp) =>
                              tstore'[s].msgs = {} /\ f.purged = Cardinality(held)
                        /\ (f.err = "" /\ e.op = deleteMsgOp) =>
                              /\ tstore'[s].msgs = held \ {e.seq}
                              /\ f.removed = (e.seq \in held)
              /\ MonitorAt(s, {"applyPurgeRespond"}) /\ MonitorStepped(s) =>
                    LET e == tlog[tapplied[s] + 1]
                        f == Section(s)
                    IN  RespondsAsLeader(s, f,
                            IF f.err # ""
                            THEN ApplyAnswer(s, e, "streamPurge", FALSE, 0, f.err)
                            ELSE ApplyAnswer(s, e, "streamPurge", TRUE, f.purged, ""))
              /\ MonitorAt(s, {"applyMsgDeleteRespond"}) /\ MonitorStepped(s) =>
                    LET e == tlog[tapplied[s] + 1]
                        f == Section(s)
                    IN  RespondsAsLeader(s, f,
                            IF f.err # "" THEN ApplyAnswer(s, e, "msgDelete", FALSE, 0, f.err)
                            ELSE IF f.removed THEN ApplyAnswer(s, e, "msgDelete", TRUE, 0, "")
                            ELSE ApplyAnswer(s, e, "msgDelete", FALSE, 0, "sequence not found"))
        /\ SendsWhatWasBuilt
      ]_vars

\* The leader has answered a purge of two messages, after a follower had applied
\* the same purge without answering.
C9_Witness ==
    /\ tact.op = "apply"
    /\ tact.resp # <<>>
    /\ tact.resp[1].kind = "streamPurge"
    /\ tact.resp[1].ok
    /\ tact.resp[1].purged >= 2
    /\ \E s \in Servers :
          /\ s # tact.srv
          /\ tapplied[s] > tapplied[tact.srv]
          /\ tstore[s].msgs = {}

----------------------------------------------------------------------------
(* Consumer replication: the update entries and their codecs.              *)

MaxVarintLen64 == 10

\* binary.PutUvarint: seven bits a byte, low bits first, the top bit set on
\* every byte but the last.
RECURSIVE PutUvarint(_)
PutUvarint(x) ==
    IF x < 128 THEN <<x>> ELSE <<(x % 128) + 128>> \o PutUvarint(x \div 128)

\* binary.PutVarint: zig-zag, then PutUvarint.
PutVarint(x) == PutUvarint(IF x < 0 THEN (-2 * x) - 1 ELSE 2 * x)

\* binary.Uvarint(buf): the value and the number of bytes read; n = 0 when the
\* buffer ends inside the value, n < 0 on overflow.
RECURSIVE UvarintFrom(_, _, _, _)
UvarintFrom(buf, i, x, mult) ==
    IF i >= Len(buf) THEN [val |-> 0, n |-> 0]
    ELSE IF i = MaxVarintLen64 THEN [val |-> 0, n |-> -(i + 1)]
    ELSE LET b == buf[i + 1]
         IN  IF b < 128
             THEN IF i = MaxVarintLen64 - 1 /\ b > 1
                  THEN [val |-> 0, n |-> -(i + 1)]
                  ELSE [val |-> x + b * mult, n |-> i + 1]
             ELSE UvarintFrom(buf, i + 1, x + (b % 128) * mult, mult * 128)

Uvarint(buf) == UvarintFrom(buf, 0, 0, 1)

\* binary.Varint(buf)
Varint(buf) ==
    LET u == Uvarint(buf)
        x == u.val \div 2
    IN  [val |-> IF u.val % 2 # 0 THEN -x - 1 ELSE x, n |-> u.n]

\* The leader's encoders of the update entries (the wire format of the opcode
\* table): the op byte, then the varints.
encodeDeliveredUpdate(dseq, sseq, dc, ts) ==
    <<updateDeliveredOp>> \o PutUvarint(dseq) \o PutUvarint(sseq) \o PutUvarint(dc)
        \o PutVarint(ts)

encodeAckUpdate(dseq, sseq) ==
    <<updateAcksOp>> \o PutUvarint(dseq) \o PutUvarint(sseq)

\* decodeAckUpdate(buf)
decodeAckUpdate(buf) ==
    LET d == Uvarint(buf)
    IN  IF d.n < 0 THEN [err |-> TRUE, dseq |-> 0, sseq |-> 0]
        ELSE LET s == Uvarint(Drop(buf, d.n))
             IN  IF s.n < 0 THEN [err |-> TRUE, dseq |-> 0, sseq |-> 0]
                 ELSE [err |-> FALSE, dseq |-> d.val, sseq |-> s.val]

BadDeliveredUpdate == [err |-> TRUE, dseq |-> 0, sseq |-> 0, dc |-> 0, ts |-> 0]

\* decodeDeliveredUpdate(buf)
decodeDeliveredUpdate(buf) ==
    LET d == Uvarint(buf)
    IN  IF d.n < 0 THEN BadDeliveredUpdate
        ELSE
        LET b1 == Drop(buf, d.n)
            s == Uvarint(b1)
        IN  IF s.n < 0 THEN BadDeliveredUpdate
            ELSE
            LET b2 == Drop(b1, s.n)
                c == Uvarint(b2)
            IN  IF c.n < 0 THEN BadDeliveredUpdate
                ELSE
                LET b3 == Drop(b2, c.n)
                    t == Varint(b3)
                IN  IF t.n < 0 THEN BadDeliveredUpdate
                    ELSE [err |-> FALSE, dseq |-> d.val, sseq |-> s.val, dc |-> c.val,
                          ts |-> t.val]

\* The uvarints of a buffer, until it ends or one cannot be read.
RECURSIVE ReadUvarints(_)
ReadUvarints(buf) ==
    IF buf = <<>> THEN <<>>
    ELSE LET u == Uvarint(buf)
         IN  IF u.n <= 0 THEN <<>>
             ELSE <<u.val>> \o ReadUvarints(Drop(buf, u.n))

\* The pending pairs in ascending order of delivery sequence.
RECURSIVE PendingSeq(_)
PendingSeq(pending) ==
    IF pending = {} THEN <<>>
    ELSE LET p == CHOOSE x \in pending : \A y \in pending : x[1] <= y[1]
         IN  <<p>> \o PendingSeq(pending \ {p})

RECURSIVE EncodePairs(_)
EncodePairs(pairs) ==
    IF pairs = <<>> THEN <<>>
    ELSE PutUvarint(Head(pairs)[1]) \o PutUvarint(Head(pairs)[2]) \o EncodePairs(Tail(pairs))

\* The consumer store's encoding of a full state: delivered, ack floor, the
\* number of pending pairs and the pairs.
encodeConsumerState(state) ==
    <<updateFullStateOp>>
        \o PutUvarint(state.delivered[1]) \o PutUvarint(state.delivered[2])
        \o PutUvarint(state.ackfloor[1]) \o PutUvarint(state.ackfloor[2])
        \o PutUvarint(Cardinality(state.pending))
        \o EncodePairs(PendingSeq(state.pending))

\* decodeConsumerState(buf)
decodeConsumerState(buf) ==
    LET v == ReadUvarints(buf)
    IN  IF Len(v) < 5 \/ Len(v) # 5 + 2 * v[5]
        THEN [err |-> TRUE, state |-> NewConsumerState]
        ELSE [err |-> FALSE,
              state |-> [delivered |-> <<v[1], v[2]>>, ackfloor |-> <<v[3], v[4]>>,
                         pending |-> {<<v[4 + 2 * i], v[5 + 2 * i]>> : i \in 1..v[5]}]]

----------------------------------------------------------------------------
(* The consumer store.                                                     *)

\* o.store.UpdateDelivered(dseq, sseq, dc, ts)
UpdateDelivered(state, dseq, sseq, dc, ts) ==
    [state EXCEPT !.delivered = <<dseq, sseq>>,
                  !.pending = IF dc = 1 THEN @ \cup {<<dseq, sseq>>} ELSE @]

\* o.store.UpdateAcks(dseq, sseq)
UpdateAcks(state, dseq, sseq) ==
    LET left == state.pending \ {<<dseq, sseq>>}
    IN  [state EXCEPT !.pending = left,
                      !.ackfloor = IF left = {} THEN state.delivered
                                   ELSE IF dseq = state.ackfloor[1] + 1 THEN <<dseq, sseq>>
                                   ELSE @]

\* o.store.Update(state)
UpdateState(state, new) == new

\* js.applyConsumerEntries(o, ce) for a committed entry: the replica afterwards.
\* storeErr is what the call into o.store returns, the empty string for nil; a
\* store that returns an error has taken nothing.  An error of UpdateDelivered
\* or UpdateAcks is a panic, which carries the error's message; the result of
\* Update is dropped.
applyConsumerEntries(rep, e, storeErr) ==
    IF e.type = "snapshot" THEN rep
    ELSE LET buf == e.data
             op == buf[1]
         IN  IF op = updateDeliveredOp
             THEN LET d == decodeDeliveredUpdate(Drop(buf, 1))
                  IN  IF d.err THEN [rep EXCEPT !.panic = TRUE, !.err = "bad delivered update"]
                      ELSE IF storeErr # "" THEN [rep EXCEPT !.panic = TRUE, !.err = storeErr]
                      ELSE [rep EXCEPT !.store =
                               UpdateDelivered(@, d.dseq, d.sseq, d.dc, d.ts)]
             ELSE IF op = updateAcksOp
             THEN LET d == decodeAckUpdate(Drop(buf, 1))
                  IN  IF d.err THEN [rep EXCEPT !.panic = TRUE, !.err = "bad ack update"]
                      ELSE IF storeErr # "" THEN [rep EXCEPT !.panic = TRUE, !.err = storeErr]
                      ELSE [rep EXCEPT !.store = UpdateAcks(@, d.dseq, d.sseq)]
             ELSE IF op = updateFullStateOp
             THEN LET d == decodeConsumerState(Drop(buf, 1))
                  IN  IF d.err THEN [rep EXCEPT !.panic = TRUE, !.err = "bad consumer state"]
                      ELSE IF storeErr # "" THEN rep
                      ELSE [rep EXCEPT !.store = UpdateState(@, d.state)]
             ELSE [rep EXCEPT !.panic = TRUE, !.err = "unknown op"]

----------------------------------------------------------------------------
(* SpecConsumer: one consumer replicated on both servers.  The leader      *)
(* proposes delivered, ack and full-state updates; every replica's monitor *)
(* applies the committed entries and handles the leader changes of its     *)
(* node; the leader fails and the other replica takes over.                *)

MaxConsumerLog == 3

\* How far a delivery moves the stream sequence, and the timestamps it carries.
StreamSteps == {1, 200}
Timestamps == {-3, 1000}

\* The consumer's assignment, as the meta log delivered it to both servers.
TheConsumer == "C1"
TheCA == NewCA(TheAccount, TheStream, TheConsumer, Servers, groupName("C", Servers, 2), 2)

\* The name of the consumer's group.
ConsumerGroup == TheCA.gname

\* An entry of the consumer's group: the bytes committed, and beside them the
\* update the leader proposed.
ConsumerEntry(data, upd) == [type |-> "normal", data |-> data, upd |-> upd]

\* The store state the updates proposed in the first k entries amount to.
RECURSIVE Proposed(_)
Proposed(k) ==
    IF k = 0 THEN NewConsumerState
    ELSE LET u == clog[k].upd
             prev == Proposed(k - 1)
         IN  IF u.op = "delivered" THEN UpdateDelivered(prev, u.dseq, u.sseq, u.dc, u.ts)
             ELSE IF u.op = "acks" THEN UpdateAcks(prev, u.dseq, u.sseq)
             ELSE UpdateState(prev, u.state)

Update(op, dseq, sseq, dc, ts, state) ==
    [op |-> op, dseq |-> dseq, sseq |-> sseq, dc |-> dc, ts |-> ts, state |-> state]

\* Both servers hold the stream and the consumer; the node of one of them
\* leads the consumer's group and its monitor has switched the consumer to
\* leader mode.
ConsumerInit ==
    /\ clog = <<>>
    /\ cstore = [s \in Servers |-> NewReplica]
    /\ capplied = [s \in Servers |-> 0]
    /\ \E s \in Servers :
          /\ clead = s
          /\ tjs \in Each([o \in Servers |->
                              After(NewJS(o),
                                    <<[op |-> "processStreamAssignment", sa |-> TheSA],
                                      [op |-> "processConsumerAssignment", held |-> FALSE,
                                       ca |-> TheCA]>>
                                    \o (IF o = s
                                        THEN <<[op |-> "lead", g |-> ConsumerGroup]>>
                                        ELSE <<>>))])
    /\ crep = NoReport
    /\ tstore = [s \in Servers |-> NewStore]
    /\ tnlseq = [s \in Servers |-> 0]
    /\ tlog = <<>>
    /\ tapplied = [s \in Servers |-> 0]
    /\ tsnap = [index |-> 0, state |-> NoStreamState]
    /\ tact = NoAct
    /\ tcu = NoCatchup
    /\ tpub = [s \in Servers |-> <<>>]
    /\ SnapIdle
    /\ MetaIdle
    /\ FuncIdle

\* The consumer of the server delivers: its node leads the group and its
\* monitor has switched it to leader mode.
ConsumerLeads(s) ==
    /\ ~tjs[s].panic
    /\ ConsumerGroup \in tjs[s].lead
    /\ <<TheAccount, TheStream, TheConsumer>> \in tjs[s].leaders

\* The consumer monitor of server s waits in its select.
ConsumerMonitorIdle(s) ==
    /\ ~tjs[s].panic
    /\ ConsumerGroup \in DOMAIN tjs[s].mons
    /\ tjs[s].mons[ConsumerGroup].todo = <<>>

\* The consumer monitor of server s is in a handler, at a section of one of ops.
ConsumerMonitorAt(s, ops) ==
    /\ ~tjs[s].panic
    /\ ConsumerGroup \in DOMAIN tjs[s].mons
    /\ tjs[s].mons[ConsumerGroup].todo # <<>>
    /\ Head(tjs[s].mons[ConsumerGroup].todo).op \in ops

\* The leader delivers the next message and proposes UPDATE_DELIVERED.
Deliver ==
    /\ Len(clog) < MaxConsumerLog
    /\ ConsumerLeads(clead)
    /\ \E step \in StreamSteps, ts \in Timestamps :
          LET cur == Proposed(Len(clog))
              dseq == cur.delivered[1] + 1
              sseq == cur.delivered[2] + step
          IN  clog' = Append(clog,
                         ConsumerEntry(encodeDeliveredUpdate(dseq, sseq, 1, ts),
                                       Update("delivered", dseq, sseq, 1, ts,
                                              NewConsumerState)))
    /\ UNCHANGED <<cstore, capplied, clead, crep, svars, mvars, tvars, fvars>>

\* The leader takes an ack of a pending delivery and proposes UPDATE_ACKS.
Ack ==
    /\ Len(clog) < MaxConsumerLog
    /\ ConsumerLeads(clead)
    /\ \E p \in Proposed(Len(clog)).pending :
          clog' = Append(clog,
                     ConsumerEntry(encodeAckUpdate(p[1], p[2]),
                                   Update("acks", p[1], p[2], 0, 0, NewConsumerState)))
    /\ UNCHANGED <<cstore, capplied, clead, crep, svars, mvars, tvars, fvars>>

\* The leader proposes UPDATE_FULL_STATE with the state its store holds, which
\* may be behind what it has proposed.
FullState ==
    /\ Len(clog) < MaxConsumerLog
    /\ ConsumerLeads(clead)
    /\ clog' = Append(clog,
                  ConsumerEntry(encodeConsumerState(cstore[clead].store),
                                Update("state", 0, 0, 0, 0, cstore[clead].store)))
    /\ UNCHANGED <<cstore, capplied, clead, crep, svars, mvars, tvars, fvars>>

\* monitorConsumerRaftGroup, case ce := <-ach: js.applyConsumerEntries(o, ce);
\* n.Applied(ce.Index) ends the handler.
ApplyConsumerEntry ==
    \E s \in Servers, storeErr \in StoreErrs :
        /\ ConsumerMonitorIdle(s)
        /\ capplied[s] < Len(clog)
        /\ LET index == capplied[s] + 1
               rep == applyConsumerEntries(cstore[s], clog[index], storeErr)
           IN  /\ cstore' = [cstore EXCEPT ![s] = rep]
               /\ tjs' = [tjs EXCEPT ![s] =
                             IF rep.panic THEN panicNow(@)
                             ELSE [@ EXCEPT !.mons[ConsumerGroup].todo =
                                      <<[op |-> "Applied", index |-> index]>>]]
        /\ UNCHANGED <<clog, capplied, clead, crep, tstore, tnlseq, tlog, tapplied, tsnap,
                       tact, tcu, tpub, svars, mvars, fvars>>

\* monitorConsumerRaftGroup, n.Applied(ce.Index).
ConsumerApplied ==
    \E s \in Servers :
        /\ ConsumerMonitorAt(s, {"Applied"})
        /\ capplied' = [capplied EXCEPT ![s] = Head(tjs[s].mons[ConsumerGroup].todo).index]
        /\ tjs' = [tjs EXCEPT ![s].mons[ConsumerGroup].todo = Tail(@)]
        /\ UNCHANGED <<clog, cstore, clead, crep, tstore, tnlseq, tlog, tapplied, tsnap,
                       tact, tcu, tpub, svars, mvars, fvars>>

\* The number of entries the replica's store has taken.
AppliedToStore(s) ==
    IF ConsumerMonitorAt(s, {"Applied"}) THEN Head(tjs[s].mons[ConsumerGroup].todo).index
    ELSE capplied[s]

\* The consumer leader reports its state and fails: its node, if the server
\* still runs, steps down, and the node of the other replica wins the election.
ConsumerLeaderFails ==
    /\ \E s \in Servers \ {clead} :
          /\ ~tjs[s].panic
          /\ \A o \in Servers :
                ~tjs[o].panic => Len(LeadChangeC(tjs[o], ConsumerGroup)) < MaxLeadChanges
          /\ clead' = s
          /\ tjs' = [o \in Servers |->
                        IF o = s THEN nodeLeaderChange(tjs[o], ConsumerGroup, TRUE)
                        ELSE IF tjs[o].panic THEN tjs[o]
                        ELSE nodeLeaderChange(tjs[o], ConsumerGroup, FALSE)]
    /\ crep' = [at |-> AppliedToStore(clead), delivered |-> cstore[clead].store.delivered,
                ackfloor |-> cstore[clead].store.ackfloor]
    /\ UNCHANGED <<clog, cstore, capplied, tstore, tnlseq, tlog, tapplied, tsnap,
                   tact, tcu, tpub, svars, mvars, fvars>>

\* monitorConsumerRaftGroup, case isLeader := <-lch: processConsumerLeaderChange
\* up to its js.mu.Unlock().
ConsumerLeaderChange ==
    \E s \in Servers :
        /\ ConsumerMonitorIdle(s)
        /\ LeadChangeC(tjs[s], ConsumerGroup) # <<>>
        /\ tjs' = [tjs EXCEPT ![s] = Quiesce(monitorLeaderChange(@, ConsumerGroup))]
        /\ tact' = NoAct
        /\ UNCHANGED <<clog, cstore, capplied, clead, crep, tstore, tnlseq, tlog, tapplied,
                       tsnap, tcu, tpub, svars, mvars, fvars>>

\* processConsumerLeaderChange once js.mu is released: the answer to the
\* request that created the consumer.
ConsumerLeaderRespond ==
    \E s \in Servers :
        /\ ConsumerMonitorAt(s, {"consumerCreateResponse"})
        /\ LET st == monitorStep(tjs[s], ConsumerGroup)
           IN  /\ tjs' = [tjs EXCEPT ![s] = Quiesce(st)]
               /\ tact' = [op |-> "respond", srv |-> s, resp |-> st.resp]
        /\ UNCHANGED <<clog, cstore, capplied, clead, crep, tstore, tnlseq, tlog, tapplied,
                       tsnap, tcu, tpub, svars, mvars, fvars>>

ConsumerNext ==
    \/ Deliver
    \/ Ack
    \/ FullState
    \/ ApplyConsumerEntry
    \/ ConsumerApplied
    \/ ConsumerLeaderFails
    \/ ConsumerLeaderChange
    \/ ConsumerLeaderRespond

SpecConsumer == ConsumerInit /\ [][ConsumerNext]_vars

\* C10: replicas whose stores have taken the same committed entries of the
\* consumer's group hold the same delivered pair and the same ack floor, and a
\* new leader that has taken the entries the failed leader had taken holds the
\* delivered pair and the ack floor the failed leader reported.
C10_SameEntriesSameState ==
    /\ \A s1 \in Servers, s2 \in Servers :
          AppliedToStore(s1) = AppliedToStore(s2) =>
              /\ cstore[s1].store.delivered = cstore[s2].store.delivered
              /\ cstore[s1].store.ackfloor = cstore[s2].store.ackfloor
    /\ (crep.at > 0 /\ AppliedToStore(clead) = crep.at) =>
          /\ cstore[clead].store.delivered = crep.delivered
          /\ cstore[clead].store.ackfloor = crep.ackfloor

----------------------------------------------------------------------------
(* SpecStreamMsg: one message encoded by encodeStreamMsg and decoded by    *)
(* decodeStreamMsg.                                                        *)

\* The length of the long field, which needs both bytes of its uint16 length.
LongLen == 300

\* Field values: empty, "foo", and a long one.
FieldValues == {<<>>, Foo, [i \in 1..LongLen |-> i % 256]}
LastSeqs == {0, 1, 256, 70000}
NanoTimes == {-70000, -1, 0, 1000}

StreamMsgInit ==
    /\ \E subject \in FieldValues, reply \in FieldValues, hdr \in FieldValues,
          msg \in FieldValues, lseq \in LastSeqs, ts \in NanoTimes :
          fin = [subject |-> subject, reply |-> reply, hdr |-> hdr, msg |-> msg,
                 lseq |-> lseq, ts |-> ts]
    /\ fout = NoCall
    /\ fpc = "init"
    /\ SnapIdle
    /\ MetaIdle
    /\ StreamIdle
    /\ ConsumerIdle

\* processClusteredInboundMsg encodes, applyStreamEntries decodes buf[1:].
StreamMsgRoundTrip ==
    /\ fpc = "init"
    /\ fout' = decodeStreamMsg(Drop(encodeStreamMsg(fin.subject, fin.reply, fin.hdr,
                                                    fin.msg, fin.lseq, fin.ts), 1))
    /\ fpc' = "done"
    /\ UNCHANGED <<fin, svars, mvars, tvars, cvars>>

StreamMsgNext == StreamMsgRoundTrip

SpecStreamMsg == StreamMsgInit /\ [][StreamMsgNext]_vars

\* C11: decodeStreamMsg of an encoded message, its op byte stripped, returns no
\* error and the subject, reply, header, body, lseq and ts that were encoded,
\* empty fields included.
C11_StreamMsgRoundTrip ==
    fpc = "done" =>
        /\ ~fout.err
        /\ fout.subject = fin.subject
        /\ fout.reply = fin.reply
        /\ fout.hdr = fin.hdr
        /\ fout.msg = fin.msg
        /\ fout.lseq = fin.lseq
        /\ fout.ts = fin.ts

\* A message with every variable field empty and a negative timestamp has been
\* through the round trip.
C11_Witness ==
    /\ fpc = "done"
    /\ fin.subject = <<>> /\ fin.reply = <<>> /\ fin.hdr = <<>> /\ fin.msg = <<>>
    /\ fin.ts < 0
    /\ ~fout.err

----------------------------------------------------------------------------
(* SpecSelect: one call of selectPeerGroup on a server whose meta group    *)
(* has some peers, some of them routed.                                    *)

MaxReplicas == 3

\* The peer IDs of the meta group.
PeerIDs == {"n1", "n2", "n3"}

\* cc.meta.Peers(): the peers in an order, every ID once.
PeerLists ==
    {ps \in UNION {[1..n -> PeerIDs] : n \in 0..Cardinality(PeerIDs)} :
        \A i \in 1..Len(ps), j \in 1..Len(ps) : i # j => ps[i] # ps[j]}

SelectInit ==
    /\ \E id \in Servers, peers \in PeerLists, routed \in SUBSET PeerIDs, r \in 0..MaxReplicas :
          /\ id \notin routed
          /\ fin = [id |-> id, peers |-> peers, routed |-> routed, r |-> r]
    /\ fout = NoCall
    /\ fpc = "init"
    /\ SnapIdle
    /\ MetaIdle
    /\ StreamIdle
    /\ ConsumerIdle

SelectCall ==
    /\ fpc = "init"
    /\ \E nodes \in selectPeerGroup(fin.id, fin.peers, fin.routed, fin.r) : fout' = nodes
    /\ fpc' = "done"
    /\ UNCHANGED <<fin, svars, mvars, tvars, cvars>>

SelectNext == SelectCall

SpecSelect == SelectInit /\ [][SelectNext]_vars

\* The meta peers that are this server or have a route.
Active == {p \in Range(fin.peers) : p = fin.id \/ p \in fin.routed}

\* C12: selectPeerGroup(r) returns r different peer IDs, each this server's ID
\* or a meta peer with a route; with fewer than r such peers it returns nothing.
C12_SelectsActivePeers ==
    fpc = "done" =>
        IF Cardinality(Active) < fin.r
        THEN fout = <<>>
        ELSE /\ Len(fout) = fin.r
             /\ \A i \in 1..Len(fout), j \in 1..Len(fout) : i # j => fout[i] # fout[j]
             /\ Range(fout) \subseteq Active

\* Two peers were selected out of three meta peers of which one has no route.
C12_Witness ==
    /\ fpc = "done"
    /\ Len(fin.peers) = 3
    /\ Cardinality(Active) = 2
    /\ fin.r = 2
    /\ Len(fout) = 2

----------------------------------------------------------------------------
(* SpecRequest: one create request handled by a server that holds no       *)
(* assignment or the assignment of stream S1, with some meta peers routed. *)

\* The states of the server with the assignment of S1 of account A1 in its
\* map.
WithStream(id) ==
    Done(processStreamAssignment(NewJS(id),
             NewSA("A1", "S1", {"n1"}, groupName("S", {"n1"}, 0), NoReply, 1)))

RequestInit ==
    /\ \E id \in Servers, peers \in PeerLists, routed \in SUBSET PeerIDs,
          r \in 0..MaxReplicas, held \in BOOLEAN, kind \in {"stream", "consumer"} :
          /\ id \notin routed
          /\ \E st \in IF held THEN WithStream(id) ELSE {NewJS(id)} :
                fin = [kind |-> kind, peers |-> peers, routed |-> routed, r |-> r,
                       reply |-> 1, st |-> st]
    /\ fout = NoCall
    /\ fpc = "init"
    /\ SnapIdle
    /\ MetaIdle
    /\ StreamIdle
    /\ ConsumerIdle

\* jsClusteredStreamRequest for stream S2 with cfg.Replicas = r.
StreamCreateCall ==
    /\ fpc = "init"
    /\ fin.kind = "stream"
    /\ \E peers \in createGroupForStream(fin.st.id, fin.peers, fin.routed, fin.r) :
          fout' = jsClusteredStreamRequest(fin.st, "A1", "S2", fin.r, Range(peers),
                                           fin.reply, 1)
    /\ fpc' = "done"
    /\ UNCHANGED <<fin, svars, mvars, tvars, cvars>>

\* jsClusteredConsumerRequest for durable C1 on stream S1.
ConsumerCreateCall ==
    /\ fpc = "init"
    /\ fin.kind = "consumer"
    /\ fout' = jsClusteredConsumerRequest(fin.st, "A1", "S1", "C1", fin.reply, 1)
    /\ fpc' = "done"
    /\ UNCHANGED <<fin, svars, mvars, tvars, cvars>>

RequestNext ==
    \/ StreamCreateCall
    \/ ConsumerCreateCall

SpecRequest == RequestInit /\ [][RequestNext]_vars

\* The meta peers that are the handling server or have a route.
Reachable == {p \in Range(fin.peers) : p = fin.st.id \/ p \in fin.routed}

\* The one response of the handler, when it is the error given.
AnsweredWith(err) ==
    /\ Len(fout.st.resp) = 1
    /\ ~fout.st.resp[1].ok
    /\ fout.st.resp[1].err = err
    /\ fout.st.resp[1].reply = fin.reply

\* C13: a stream create request handled with fewer reachable peers than its
\* replica count is answered at once with the insufficient-resources error and
\* proposes nothing, and the handler's assignment map is as it was; a consumer
\* create request for a stream without assignment is answered at once with the
\* not-found error and proposes nothing.
C13_RejectedRequestsProposeNothing ==
    /\ (fpc = "done" /\ fin.kind = "stream"
           /\ Cardinality(Reachable) < (IF fin.r = 0 THEN 1 ELSE fin.r)) =>
          /\ AnsweredWith("jsInsufficientErr")
          /\ fout.prop = <<>>
          /\ fout.st.streams = fin.st.streams
    /\ (fpc = "done" /\ fin.kind = "consumer"
           /\ streamAssignment(fin.st.streams, "A1", "S1") = Nil) =>
          /\ AnsweredWith("ErrJetStreamStreamNotFound")
          /\ fout.prop = <<>>
          /\ fout.st.streams = fin.st.streams

\* A three-replica stream was requested with two of three peers reachable.
C13_Witness ==
    /\ fpc = "done"
    /\ fin.kind = "stream"
    /\ fin.r = 3
    /\ Len(fin.peers) = 3
    /\ Cardinality(Reachable) = 2
    /\ fout.prop = <<>>

----------------------------------------------------------------------------
(* Stream assignments of the meta group.                                   *)

\* The stream assignments in the map of server s, each with its key.
AssignmentsOf(s) ==
    {<<k, mjs[s].streams[k[1]][k[2]]>> : k \in Keys(mjs[s].streams)}

\* C14: every stream assignment in a server's map is filed under its own
\* account and name, so no two assignments of an account have the same name, and
\* its group has as many peers as its configured replica count, 1 when that
\* count is 0.
C14_NameUniqueAndPeersMatchReplicas ==
    \A s \in Servers :
        \A x \in AssignmentsOf(s) :
            /\ x[2].acct = x[1][1]
            /\ x[2].name = x[1][2]
            /\ Cardinality(x[2].peers) = (IF x[2].replicas = 0 THEN 1 ELSE x[2].replicas)

\* A server took a stream with the default replica count from a snapshot, and
\* a request for the stream with two replicas is committed behind it.
C14_Witness ==
    /\ msnap.index > 0
    /\ \E s \in Servers :
          /\ mapplied[s] = msnap.index /\ mapplied[s] < Len(mlog)
          /\ mjs[s].todo = <<>>
          /\ \E x \in AssignmentsOf(s) : x[2].replicas = 0
    /\ \E i \in 1..Len(mlog) : mlog[i].op = "assignStream" /\ mlog[i].replicas = 2

----------------------------------------------------------------------------
(* SpecGroups: create requests for two streams and two consumers, handled  *)
(* by the meta leader and applied by the servers.                          *)

MaxGroups == 3

\* The requests the meta leader handles, answered with an error or proposed.
MaxGroupRequests == 4

GroupKeys == {<<"A1", "S1">>, <<"A1", "S2">>}
GroupConsumers == {"C1", "C2"}

\* A create request handled by the meta leader.
Created(r) ==
    /\ Len(mlog) + Len(r.prop) <= MaxGroups
    /\ mnuid < MaxGroupRequests
    /\ mlog' = mlog \o r.prop
    /\ mresp' = Emit(mresp, r.st.resp)
    /\ mnuid' = mnuid + 1
    /\ UNCHANGED <<mjs, mapplied, msnap, mleader, mterm, svars, tvars, cvars, fvars>>

GroupStreamRequest ==
    /\ Len(mlog) < MaxGroups
    /\ \E k \in GroupKeys, r \in MetaReplicas :
          \E peers \in createGroupForStream(mleader, MetaPeers, Servers \ {mleader}, r) :
              Created(jsClusteredStreamRequest(mjs[mleader], k[1], k[2], r, Range(peers),
                                               mnuid + 1, mnuid + 1))

GroupConsumerRequest ==
    /\ Len(mlog) < MaxGroups
    /\ \E k \in GroupKeys, c \in GroupConsumers :
          Created(jsClusteredConsumerRequest(mjs[mleader], k[1], k[2], c,
                                             mnuid + 1, mnuid + 1))

GroupsNext ==
    \/ GroupStreamRequest
    \/ GroupConsumerRequest
    \/ ApplyMetaEntry

SpecGroups == MetaInit /\ [][GroupsNext]_vars

\* The committed assignments: each is the creation of one replication group.
CreatedGroups == {i \in 1..Len(mlog) : mlog[i].op \in {"assignStream", "assignConsumer"}}

\* The stream or consumer a committed assignment creates a group for.
GroupOwner(e) ==
    IF e.op = "assignStream" THEN <<e.acct, e.name, "">> ELSE <<e.acct, e.stream, e.name>>

\* C15: the replication groups created for two different streams or consumers
\* by stream and consumer create requests have different names.
C15_GroupNamesDiffer ==
    \A i \in CreatedGroups, j \in CreatedGroups :
        GroupOwner(mlog[i]) # GroupOwner(mlog[j]) => mlog[i].gname # mlog[j].gname

----------------------------------------------------------------------------
(* SpecOptions: validateJetStreamOptions on one configuration.             *)

\* A variant of validateJetStreamOptions that tests the cluster name first.
validateJetStreamOptions_ClusterFirst(o) ==
    IF ~o.JetStream \/ o.ClusterPort = 0 THEN ""
    ELSE IF o.ClusterName = "" THEN "jetstream cluster requires cluster_name to be set"
    ELSE IF o.ServerName = "" THEN "jetstream cluster requires server_name to be set"
    ELSE ""

\* validateJetStreamOptions(o): the text of the error without its quote marks,
\* empty for nil.
validateJetStreamOptions(o) ==
    IF ~o.JetStream \/ o.ClusterPort = 0 THEN ""
    ELSE IF o.ServerName = "" THEN "jetstream cluster requires server_name to be set"
    ELSE IF o.ClusterName = "" THEN "jetstream cluster requires cluster_name to be set"
    ELSE ""

\* Cluster ports: none, the random port of the tests, two fixed ones.
ClusterPorts == {0, -1, 4248, 6222}
ServerNames == {"", "TEST", "S-1"}
ClusterNames == {"", "JSC", "HUB"}

OptionsInit ==
    /\ \E js \in BOOLEAN, port \in ClusterPorts, sn \in ServerNames, cn \in ClusterNames :
          fin = [JetStream |-> js, ClusterPort |-> port, ServerName |-> sn,
                 ClusterName |-> cn]
    /\ fout = NoCall
    /\ fpc = "init"
    /\ SnapIdle
    /\ MetaIdle
    /\ StreamIdle
    /\ ConsumerIdle

ValidateCall ==
    /\ fpc = "init"
    /\ fout' = validateJetStreamOptions(fin)
    /\ fpc' = "done"
    /\ UNCHANGED <<fin, svars, mvars, tvars, cvars>>

OptionsNext == ValidateCall

SpecOptions == OptionsInit /\ [][OptionsNext]_vars

\* C16: with JetStream and a cluster port, an empty server name is rejected with
\* the error naming server_name, whatever the cluster name; a set server name
\* with an empty cluster name is rejected with the error naming cluster_name; a
\* configuration without JetStream or without cluster port is accepted.
C16_ClusterNeedsNames ==
    fpc = "done" =>
        IF ~fin.JetStream \/ fin.ClusterPort = 0 THEN fout = ""
        ELSE IF fin.ServerName = ""
        THEN fout = "jetstream cluster requires server_name to be set"
        ELSE IF fin.ClusterName = ""
        THEN fout = "jetstream cluster requires cluster_name to be set"
        ELSE fout = ""

\* A clustered JetStream configuration with neither name was validated.
C16_Witness ==
    /\ fpc = "done"
    /\ fin.JetStream /\ fin.ClusterPort # 0
    /\ fin.ServerName = "" /\ fin.ClusterName = ""
    /\ fout # ""

----------------------------------------------------------------------------
(* Create responses, server by server.                                     *)

\* The replies of the committed stream assignments.
StreamAssignReplies ==
    {mlog[i].reply : i \in {j \in 1..Len(mlog) : mlog[j].op = "assignStream"}}

\* How many create-stream responses server s has sent to a reply subject.
StreamCreatesBy(s, reply) ==
    SumCopies(mresp, {r \in BagToSet(mresp) :
                         r.srv = s /\ r.kind = "streamCreate" /\ r.reply = reply})

\* The stream monitors of server s that take a gain of leadership from their
\* LeadChangeC in the step while their assignment has not been answered.
FirstGains(s) ==
    {g \in DOMAIN mjs[s].mons :
        /\ mjs[s].mons[g].kind = "S"
        /\ ~mjs[s].mons[g].responded
        /\ LeadChangeC(mjs[s], g) # <<>>
        /\ Head(LeadChangeC(mjs[s], g))
        /\ LeadChangeC(mjs'[s], g) = Tail(LeadChangeC(mjs[s], g))}

\* The call is the answer r.
Answers(f, r) ==
    /\ f.op = "streamCreateResponse"
    /\ f.acct = r.acct /\ f.stream = r.stream /\ f.reply = r.reply

\* C17: a server sends the create-stream response of an assignment at most
\* once; a stream monitor has the answer to send only after a step in which it
\* gains leadership with responded false, never after a later gain or a loss;
\* and the answer is sent by such a monitor or, for a stream whose only peer
\* the server is, by monitorCluster while it applies the assignment.
C17_StreamCreateOncePerServer ==
    /\ [](\A s \in Servers, reply \in StreamAssignReplies : StreamCreatesBy(s, reply) <= 1)
    /\ [][\A s \in Servers :
             /\ \A g \in DOMAIN mjs[s].mons \cap DOMAIN mjs'[s].mons :
                   (/\ mjs[s].mons[g].kind = "S"
                    /\ mjs[s].mons[g].todo = <<>>
                    /\ mjs'[s].mons[g].todo # <<>>) => g \in FirstGains(s)
             /\ \A r \in NewResponses :
                   (r.srv = s /\ r.kind = "streamCreate" /\ r.reply \in StreamAssignReplies) =>
                       \/ \E g \in DOMAIN mjs[s].mons :
                             /\ mjs[s].mons[g].todo # <<>>
                             /\ Answers(Head(mjs[s].mons[g].todo), r)
                       \/ \E i \in 1..Len(mjs[s].late) : Answers(mjs[s].late[i], r)
                       \/ /\ mjs[s].todo # <<>>
                          /\ Answers(Head(mjs[s].todo), r)
                          /\ \E i \in 1..Len(mjs[s].todo) :
                                /\ mjs[s].todo[i].op = "Applied"
                                /\ LET e == mlog[mjs[s].todo[i].index]
                                   IN  /\ e.op = "assignStream"
                                       /\ e.reply = r.reply
                                       /\ e.peers = {s}]_vars

\* A server answered on its first gain of a stream group's leadership and lost
\* the leadership since; the other replica leads the group now.
C17_Witness ==
    \E s \in Servers : \E g \in DOMAIN mjs[s].mons :
        /\ mjs[s].mons[g].kind = "S"
        /\ mjs[s].mons[g].responded
        /\ g \notin mjs[s].lead
        /\ StreamCreatesBy(s, mjs[s].mons[g].reply) = 1
        /\ \E o \in Servers \ {s} : g \in mjs[o].lead

\* The committed consumer assignments.
ConsumerAssigns == {i \in 1..Len(mlog) : mlog[i].op = "assignConsumer"}

\* How many create-consumer responses went to a reply subject.
ConsumerCreatesTo(reply) ==
    SumCopies(mresp, {r \in BagToSet(mresp) :
                         r.kind = "consumerCreate" /\ r.reply = reply})

\* Every goroutine of the server waits in its select, and no leader change
\* waits on a LeadChangeC for its monitor.
AtRest(st) ==
    /\ st.todo = <<>>
    /\ st.late = <<>>
    /\ \A g \in DOMAIN st.mons : st.mons[g].todo = <<>>
    /\ \A g \in DOMAIN st.lch : st.lch[g] = <<>>

\* Every server has applied the entry, and a server that holds the entry's
\* assignment in its map leads the entry's group and has handled the change
\* of leadership.
AppliedAndLed(i) ==
    /\ \A s \in Servers : ~mjs[s].panic /\ mapplied[s] >= i
    /\ \E s \in Servers :
          LET e == mlog[i]
              sa == streamAssignment(mjs[s].streams, e.acct, e.stream)
          IN  /\ sa # Nil
              /\ e.name \in DOMAIN sa.consumers
              /\ sa.consumers[e.name].reply = e.reply
              /\ LeadsGroupOf(mjs[s], e)
              /\ AtRest(mjs[s])

\* C18: the create-consumer response of a committed consumer assignment is
\* never sent twice, and once every server has applied the assignment and a
\* server holding it leads the consumer's group and has handled the change of
\* leadership it has been sent once; this includes an assignment of a consumer
\* name the stream already has.
C18_ConsumerCreateAnsweredOnce ==
    \A i \in ConsumerAssigns :
        /\ ConsumerCreatesTo(mlog[i].reply) <= 1
        /\ AppliedAndLed(i) => ConsumerCreatesTo(mlog[i].reply) = 1

----------------------------------------------------------------------------
(* The order of a snapshot application.                                    *)

Removals == {"processStreamRemoval", "processConsumerRemoval"}
Adds == {"processStreamAssignment", "processConsumerAssignment"}

\* C19: in one application of a snapshot every removal comes before every add,
\* and the assignment of an added stream comes before the assignments of its
\* consumers.
C19_RemovalsBeforeAdds ==
    spc = "applied" =>
        \A i \in 1..Len(sjs.acts), j \in 1..Len(sjs.acts) :
            /\ (sjs.acts[i].op \in Adds /\ sjs.acts[j].op \in Removals) => j < i
            /\ (/\ sjs.acts[i].op = "processStreamAssignment"
                /\ sjs.acts[j].op = "processConsumerAssignment"
                /\ sjs.acts[i].acct = sjs.acts[j].acct
                /\ sjs.acts[i].stream = sjs.acts[j].stream) => i < j

----------------------------------------------------------------------------
(* The leader's proposed and applied sequences.                            *)

\* C20: between publish calls the stream leader's nlseq is at least its lseq,
\* whatever the interleaving of publishes, applies and leadership changes.
C20_LeaderNlseqAtLeastLseq ==
    \A s \in Servers :
        LeadsStream(s) /\ InLeaderMode(s) /\ tpub[s] = <<>> => tnlseq[s] >= tstore[s].last

\* The number of entries of the log that the store of server s has taken: the
\* entry its monitor is in is counted once the store has it.
TakenByStore(s) ==
    IF MonitorAt(s, {"Applied"}) THEN Head(tjs[s].mons[TheGroup].todo).index
    ELSE tapplied[s]

\* The message proposals of server s that s has not applied yet.
InFlight(s) ==
    Cardinality({i \in (TakenByStore(s) + 1)..Len(tlog) :
                    tlog[i].op = streamMsgOp /\ tlog[i].by = s})

\* C21: on the stream leader nlseq - lseq is the number of its own message
\* proposals that it has not applied yet.
C21_GapCountsInFlight ==
    \A s \in Servers :
        LeadsStream(s) /\ InLeaderMode(s) => tnlseq[s] - tstore[s].last = InFlight(s)

----------------------------------------------------------------------------
(* The sequences a server proposes.                                        *)

\* The lseq values of the message entries server s proposed, in propose order.
ProposedSeqs(s) ==
    LET mine == SelectSeq(tlog, LAMBDA e : e.op = streamMsgOp /\ e.by = s)
    IN  [i \in 1..Len(mine) |-> decodeStreamMsg(Drop(mine[i].buf, 1)).lseq]

\* The entry a step of server s appended to the log, as a sequence of 0 or 1.
ProposedBy(s) ==
    IF Len(tlog') = Len(tlog) + 1 /\ tlog'[Len(tlog')].op = streamMsgOp
          /\ tlog'[Len(tlog')].by = s
    THEN <<decodeStreamMsg(Drop(tlog'[Len(tlog')].buf, 1)).lseq>> ELSE <<>>

\* C22 as stated: the sequences one server proposes are strictly increasing
\* and consecutive ones differ by exactly 1.
C22_ConsecutiveByOne ==
    \A s \in Servers :
        \A i \in 1..(Len(ProposedSeqs(s)) - 1) :
            ProposedSeqs(s)[i + 1] = ProposedSeqs(s)[i] + 1

\* C22: the sequences one server proposes are strictly increasing and below
\* its nlseq; each proposal carries the greater of nlseq and lseq as they were
\* when the publish began, and nlseq is that value plus 1 afterwards.
C22_ProposedSeqsIncrease ==
    /\ [](\A s \in Servers :
            /\ \A i \in 1..Len(ProposedSeqs(s)) : ProposedSeqs(s)[i] < tnlseq[s]
            /\ \A i \in 1..(Len(ProposedSeqs(s)) - 1) :
                  ProposedSeqs(s)[i] < ProposedSeqs(s)[i + 1])
    /\ [][\A s \in Servers :
            ProposedBy(s) # <<>> =>
                /\ ProposedBy(s)[1] = IF tnlseq[s] < tstore[s].last
                                      THEN tstore[s].last ELSE tnlseq[s]
                /\ tnlseq'[s] = ProposedBy(s)[1] + 1]_vars

\* A server's second proposal skipped a sequence: its lseq had passed its nlseq.
C22_Witness ==
    \E s \in Servers :
        /\ Len(ProposedSeqs(s)) >= 2
        /\ ProposedSeqs(s)[2] > ProposedSeqs(s)[1] + 1

----------------------------------------------------------------------------
(* SpecPublish: one call of processClusteredInboundMsg on a stream with    *)
(* some lseq and nlseq, acking or not, leading or not, with or without a   *)
(* reply subject, whose proposal the node accepts or refuses.              *)

MaxSeq == 3

PublishInit ==
    /\ \E lseq \in 0..MaxSeq, nlseq \in 0..MaxSeq, noAck \in BOOLEAN, isLeader \in BOOLEAN,
          err \in ProposeErrs, reply \in PubReplies :
          fin = [lseq |-> lseq, nlseq |-> nlseq, noAck |-> noAck, isLeader |-> isLeader,
                 err |-> err, reply |-> reply]
    /\ fout = NoCall
    /\ fpc = "init"
    /\ SnapIdle
    /\ MetaIdle
    /\ StreamIdle
    /\ ConsumerIdle

\* processClusteredInboundMsg up to mset.mu.Unlock(): the answer it has built
\* is held, nothing is on the send queue yet.
PublishCall ==
    /\ fpc = "init"
    /\ LET r == processClusteredInboundMsg([NewStore EXCEPT !.last = fin.lseq], fin.nlseq,
                                           fin.noAck, fin.isLeader, fin.err, Foo, fin.reply,
                                           <<1>>, 1)
       IN  fout' = [nlseq |-> r.nlseq, prop |-> r.prop, held |-> r.sendq, sendq |-> <<>>,
                    err |-> r.err]
    /\ fpc' = "unlocked"
    /\ UNCHANGED <<fin, svars, mvars, tvars, cvars>>

\* processClusteredInboundMsg after mset.mu.Unlock(), to its return.
PublishSend ==
    /\ fpc = "unlocked"
    /\ fout' = [fout EXCEPT !.sendq = fout.held, !.held = <<>>]
    /\ fpc' = "done"
    /\ UNCHANGED <<fin, svars, mvars, tvars, cvars>>

PublishNext ==
    \/ PublishCall
    \/ PublishSend

SpecPublish == PublishInit /\ [][PublishNext]_vars

\* The 503 is enqueued exactly when the proposal failed, the stream acks, the
\* message has a reply and the server leads; the error of Propose is returned.
PublishAnswer ==
    /\ fout.err = fin.err
    /\ fout.sendq # <<>> <=>
          (fin.err # "" /\ ~fin.noAck /\ fin.reply # <<>> /\ fin.isLeader)
    /\ fout.sendq # <<>> =>
          fout.sendq = <<[reply |-> fin.reply, stream |-> TheStream, code |-> 503,
                          desc |-> fin.err]>>

\* C23 as stated: a failed proposal leaves nlseq as it was at the call, a
\* successful one leaves it exactly 1 higher.
C23_NlseqUnchangedOnFailure ==
    fpc = "done" =>
        /\ PublishAnswer
        /\ fout.nlseq = IF fin.err # "" THEN fin.nlseq ELSE fin.nlseq + 1

\* C23: nlseq is first raised to lseq when it is behind; a failed proposal
\* leaves it there and returns the error, a successful one leaves it 1 higher;
\* the 503 is enqueued exactly when the proposal failed, the stream acks, the
\* message has a reply and the server leads.
C23_ProposeFailureKeepsNlseq ==
    fpc = "done" =>
        LET n == IF fin.nlseq < fin.lseq THEN fin.lseq ELSE fin.nlseq
        IN  /\ PublishAnswer
            /\ fout.nlseq = IF fin.err # "" THEN n ELSE n + 1

\* A proposal failed on an acking leader with nlseq behind lseq, for a message
\* with a reply: the 503 is on the send queue and nlseq is lseq.
C23_Witness ==
    /\ fpc = "done"
    /\ fin.err # "" /\ ~fin.noAck /\ fin.isLeader /\ fin.reply # <<>>
    /\ fin.nlseq < fin.lseq
    /\ Len(fout.sendq) = 1 /\ fout.sendq[1].code = 503
    /\ fout.nlseq = fin.lseq

----------------------------------------------------------------------------
(* SpecApply: the stream monitor takes one committed batch of message      *)
(* entries from ApplyC; entries may carry any sequence, may be truncated,  *)
(* and the store's write may fail.                                         *)

MaxBatch == 2
MaxLast == 2

\* A message entry carrying lseq, whole or cut short after its first 20 bytes.
MsgEntry(lseq, whole) ==
    LET buf == encodeStreamMsg(Foo, <<>>, <<>>, <<7>>, lseq, 1)
    IN  StreamMsgEntry(IF whole THEN buf ELSE SubSeq(buf, 1, 20))

\* The monitor has taken the batch from ApplyC and stands before its first
\* entry: stores holds the store after each entry the loop has processed.
ApplyStart == [stores |-> <<>>, panic |-> FALSE, acked |-> FALSE]

ApplyInit ==
    /\ \E last \in 0..MaxLast, n \in 1..MaxBatch :
          \E lseqs \in [1..n -> 0..(MaxLast + 1)], whole \in [1..n -> BOOLEAN],
             errs \in [1..n -> StoreErrs] :
             fin = [store |-> [first |-> 1, last |-> last, msgs |-> 1..last],
                    entries |-> [i \in 1..n |-> MsgEntry(lseqs[i], whole[i])],
                    lseqs |-> lseqs, whole |-> whole, errs |-> errs]
    /\ fout = ApplyStart
    /\ fpc = "loop"
    /\ SnapIdle
    /\ MetaIdle
    /\ StreamIdle
    /\ ConsumerIdle

\* The store before the loop processed entry i.
StoreBefore(i) == IF i = 1 THEN fin.store ELSE fout.stores[i - 1]

\* applyStreamEntries, one turn of the loop over ce.Entries: a panic ends the
\* loop and the goroutine.
ApplyEntry ==
    /\ fpc = "loop"
    /\ Len(fout.stores) < Len(fin.entries)
    /\ LET i == Len(fout.stores) + 1
           r == applyStreamEntries(StoreBefore(i), fin.entries[i], fin.errs[i])
       IN  /\ fout' = [fout EXCEPT !.stores = Append(@, r.store), !.panic = r.panic]
           /\ fpc' = IF r.panic THEN "done" ELSE "loop"
    /\ UNCHANGED <<fin, svars, mvars, tvars, cvars>>

\* monitorStreamRaftGroup, n.Applied(ce.Index) once applyStreamEntries returned.
ApplyApplied ==
    /\ fpc = "loop"
    /\ Len(fout.stores) = Len(fin.entries)
    /\ fout' = [fout EXCEPT !.acked = TRUE]
    /\ fpc' = "done"
    /\ UNCHANGED <<fin, svars, mvars, tvars, cvars>>

ApplyNext ==
    \/ ApplyEntry
    \/ ApplyApplied

SpecApply == ApplyInit /\ [][ApplyNext]_vars

\* C24: a decodable message entry whose lseq is not the store's last sequence
\* is skipped: the apply does not panic at it, the store is as it was, and the
\* loop goes on to the following entries; an entry that matches is stored; an
\* undecodable entry or a failed write ends the apply with a panic at that
\* entry, the store as it was; and the batch is acknowledged exactly when the
\* loop has passed every entry without a panic.
C24_MismatchSkippedOtherErrorsFatal ==
    /\ fout.acked => (fpc = "done" /\ ~fout.panic /\ Len(fout.stores) = Len(fin.entries))
    /\ fpc = "done" => (fout.acked \/ fout.panic)
    /\ fout.panic => fpc = "done"
    /\ \A i \in 1..Len(fout.stores) :
          LET before == StoreBefore(i)
              panicked == fout.panic /\ i = Len(fout.stores)
          IN  IF ~fin.whole[i]
              THEN panicked /\ fout.stores[i] = before
              ELSE IF fin.lseqs[i] # before.last
              THEN ~panicked /\ fout.stores[i] = before
              ELSE IF fin.errs[i] # ""
              THEN panicked /\ fout.stores[i] = before
              ELSE ~panicked /\ fout.stores[i] = StoreMsg(before)

\* The first entry of a batch of two did not match and was skipped, the second
\* matched and was stored, and the batch was acknowledged.
C24_Witness ==
    /\ fpc = "done"
    /\ Len(fin.entries) = 2
    /\ fin.whole[1] /\ fin.lseqs[1] # fin.store.last
    /\ fout.acked
    /\ fout.stores[1] = fin.store
    /\ fout.stores[2].last = fin.store.last + 1

----------------------------------------------------------------------------
(* SpecMetaBatch: monitorCluster takes one committed batch of stream       *)
(* assignment entries from ApplyC, some of which do not decode.            *)

MaxMetaBatch == 2
BatchStreams == <<"S1", "S2", "S3">>

\* The assignment of the k-th stream to both servers.
BatchSA(k) ==
    NewSA("A1", BatchStreams[k], Servers, groupName("S", Servers, k), k, 2)

BatchEntries ==
    {encodeStreamAssignment("assignStream", BatchSA(k)) : k \in 1..Len(BatchStreams)}
        \cup {CorruptEntry(op) : op \in {"assignStream", "removeStream",
                                        "assignConsumer", "removeConsumer"}}

MetaBatchInit ==
    /\ \E n \in 1..MaxMetaBatch : \E entries \in [1..n -> BatchEntries] : fin = entries
    /\ fout = NoCall
    /\ fpc = "init"
    /\ SnapIdle
    /\ MetaIdle
    /\ StreamIdle
    /\ ConsumerIdle

\* monitorCluster, case ce := <-ach: the batch is taken from ApplyC.
MetaBatchTake ==
    /\ fpc = "init"
    /\ fout' = [js |-> TakeEntries(NewJS("n1"), fin, 1), acked |-> FALSE]
    /\ fpc' = "running"
    /\ UNCHANGED <<fin, svars, mvars, tvars, cvars>>

\* The next section of applyMetaEntries(ce.Entries), or n.Applied(ce.Index)
\* once it has returned.
MetaBatchApply ==
    /\ fpc = "running"
    /\ \E in \in StepInputs(fout.js) :
          fout' = [js |-> Step(fout.js, in), acked |-> Head(fout.js.todo).op = "Applied"]
    /\ fpc' = Returned(fout'.js)
    /\ UNCHANGED <<fin, svars, mvars, tvars, cvars>>

MetaBatchNext == MetaBatchTake \/ MetaBatchApply

SpecMetaBatch == MetaBatchInit /\ [][MetaBatchNext]_vars

\* C25: an entry of a committed meta batch that does not decode is skipped
\* alone: every entry of the batch that decodes is applied to the assignment
\* map, and the batch is acknowledged.
C25_LaterEntriesStillApplied ==
    fpc = "done" =>
        /\ fout.acked
        /\ \A i \in 1..Len(fin) :
              ~UnmarshalFails(fin[i]) =>
                  streamAssignment(fout.js.streams, fin[i].acct, fin[i].name) # Nil

----------------------------------------------------------------------------
(* SpecConsumerDecode: a replica applies one committed delivered or ack    *)
(* update whose payload is whole, cut short at any byte, or empty.         *)

\* The sequences the payloads carry, of one, two and three bytes as varints.
UpdateSeqs == {1, 200, 20000}

\* The replica before the apply: two messages delivered, the first acked.
DecodeStore ==
    [delivered |-> <<2, 2>>, ackfloor |-> <<1, 1>>, pending |-> {<<2, 2>>}]

ConsumerDecodeInit ==
    /\ \E op \in {updateDeliveredOp, updateAcksOp}, dseq \in UpdateSeqs, sseq \in UpdateSeqs,
          dc \in {1, 2}, ts \in Timestamps, storeErr \in StoreErrs :
          LET whole == IF op = updateDeliveredOp
                       THEN encodeDeliveredUpdate(dseq, sseq, dc, ts)
                       ELSE encodeAckUpdate(dseq, sseq)
          IN  \E k \in 1..Len(whole) :
                 fin = [op |-> op, data |-> SubSeq(whole, 1, k), whole |-> k = Len(whole),
                        storeErr |-> storeErr]
    /\ fout = NoCall
    /\ fpc = "init"
    /\ SnapIdle
    /\ MetaIdle
    /\ StreamIdle
    /\ ConsumerIdle

ConsumerDecodeApply ==
    /\ fpc = "init"
    /\ fout' = applyConsumerEntries([NewReplica EXCEPT !.store = DecodeStore],
                                    ConsumerEntry(fin.data, <<>>), fin.storeErr)
    /\ fpc' = "done"
    /\ UNCHANGED <<fin, svars, mvars, tvars, cvars>>

ConsumerDecodeNext == ConsumerDecodeApply

SpecConsumerDecode == ConsumerDecodeInit /\ [][ConsumerDecodeNext]_vars

\* The varints the update of an op needs.
RequiredVarints(op) == IF op = updateDeliveredOp THEN 4 ELSE 2

\* C26: a delivered or ack update whose payload does not hold all the varints
\* it needs is a fatal decode error and the consumer store is not written.
C26_TruncatedUpdateIsFatal ==
    fpc = "done" =>
        (Len(ReadUvarints(Drop(fin.data, 1))) < RequiredVarints(fin.op)
            => (fout.panic /\ fout.store = DecodeStore))

----------------------------------------------------------------------------
(* SpecStreamMsgDecode: decodeStreamMsg on the body of an encoded message, *)
(* whole, cut short at any byte, or with one length field declaring more   *)
(* than the bytes that follow it.                                          *)

ShortFields == {<<>>, <<102, 111>>}

\* The body with the lengths dsl, drl, dhl, dml declared for its fields.
Body(s, r, h, m, dsl, drl, dhl, dml) ==
    PutLE(5, 8) \o PutLE(1000, 8) \o PutLE(dsl, 2) \o s \o PutLE(drl, 2) \o r
        \o PutLE(dhl, 2) \o h \o PutLE(dml, 4) \o m

\* The body in which the length of field f declares one byte more than the
\* bytes that follow the length.
LongBody(s, r, h, m, f) ==
    LET afterMl == Len(m)
        afterHl == Len(h) + 4 + afterMl
        afterRl == Len(r) + 2 + afterHl
        afterSl == Len(s) + 2 + afterRl
    IN  Body(s, r, h, m,
             IF f = "subject" THEN afterSl + 1 ELSE Len(s),
             IF f = "reply" THEN afterRl + 1 ELSE Len(r),
             IF f = "hdr" THEN afterHl + 1 ELSE Len(h),
             IF f = "msg" THEN afterMl + 1 ELSE Len(m))

StreamMsgDecodeInit ==
    /\ \E s \in ShortFields, r \in ShortFields, h \in ShortFields, m \in ShortFields :
          LET whole == Drop(encodeStreamMsg(s, r, h, m, 5, 1000), 1)
              fields == [subject |-> s, reply |-> r, hdr |-> h, msg |-> m]
          IN  \/ \E k \in 0..Len(whole) :
                    fin = [kind |-> IF k = Len(whole) THEN "whole" ELSE "cut",
                           buf |-> Take(whole, k), fields |-> fields]
              \/ \E f \in {"subject", "reply", "hdr", "msg"} :
                    fin = [kind |-> "long", buf |-> LongBody(s, r, h, m, f),
                           fields |-> fields]
    /\ fout = NoCall
    /\ fpc = "init"
    /\ SnapIdle
    /\ MetaIdle
    /\ StreamIdle
    /\ ConsumerIdle

StreamMsgDecode ==
    /\ fpc = "init"
    /\ fout' = decodeStreamMsg(fin.buf)
    /\ fpc' = "done"
    /\ UNCHANGED <<fin, svars, mvars, tvars, cvars>>

StreamMsgDecodeNext == StreamMsgDecode

SpecStreamMsgDecode == StreamMsgDecodeInit /\ [][StreamMsgDecodeNext]_vars

\* The body of a message whose four fields are empty.
EmptyFields == [subject |-> <<>>, reply |-> <<>>, hdr |-> <<>>, msg |-> <<>>]

\* C27 as stated: the minimum length is 25 bytes, so of the prefixes of the
\* body of a message with empty fields exactly those shorter than 25 bytes are
\* rejected.
C27_MinimumIs25 ==
    (fpc = "done" /\ fin.fields = EmptyFields /\ fin.kind # "long")
        => (fout.err <=> Len(fin.buf) < 25)

\* C27: decodeStreamMsg accepts a whole body, the shortest of which has 26
\* bytes, and returns its fields; it returns errBadStreamMsg and no field for
\* every buffer shorter than 26 bytes, for every body cut short and for every
\* body in which a declared length exceeds the bytes remaining.
C27_MinimumIs26 ==
    fpc = "done" =>
        /\ fin.kind = "whole" =>
              /\ ~fout.err
              /\ [subject |-> fout.subject, reply |-> fout.reply, hdr |-> fout.hdr,
                  msg |-> fout.msg] = fin.fields
              /\ fout.lseq = 5 /\ fout.ts = 1000
              /\ Len(fin.buf) >= 26
        /\ (Len(fin.buf) < 26 \/ fin.kind \in {"cut", "long"}) => fout = BadStreamMsg

\* The body of a message with empty fields, 26 bytes, was accepted.
C27_Witness ==
    /\ fpc = "done"
    /\ fin.kind = "whole"
    /\ Len(fin.buf) = 26
    /\ ~fout.err

----------------------------------------------------------------------------
(* SpecAssign: a server that holds the assignment of stream S1, with or    *)
(* without a consumer and an answered create request, processes one more   *)
(* stream assignment or a stream removal.                                  *)

PeerSets == {{"n1"}, {"n2"}, {"n1", "n2"}}
AssignStreams == {"S1", "S2"}

\* The assignment of a stream to a peer set, as the meta leader builds it.
AssignSA(stream, peers, nuid) ==
    NewSA("A1", stream, peers, groupName("S", peers, nuid), nuid, Cardinality(peers))

\* The states of server id after the assignment of S1 to peers; with more, S3 is
\* assigned before it; with leads, the monitor of S1 has gained leadership;
\* with consumer, C1 is assigned as well; with fsErr, the server's file store
\* fails from the assignment of S1 on; with local, the account has a stream S1
\* of its own on the server beforehand, internal or plain.
Holding(id, peers, leads, consumer, more, fsErr, local) ==
    LET sa == AssignSA("S1", peers, 1)
        js == [NewJS(id) EXCEPT
                  !.msets = IF local = "none" THEN {} ELSE {<<"A1", "S1">>},
                  !.internal = IF local = "internal" THEN {<<"A1", "S1">>} ELSE {}]
        ca == NewCA("A1", "S1", "C1", peers, groupName("C", peers, 2), 2)
    IN  After(js,
              (IF more
               THEN <<[op |-> "processStreamAssignment", sa |-> AssignSA("S3", Servers, 4)]>>
               ELSE <<>>)
              \o (IF fsErr THEN <<[op |-> "fsErr"]>> ELSE <<>>)
              \o <<[op |-> "processStreamAssignment", sa |-> sa]>>
              \o (IF leads THEN <<[op |-> "lead", g |-> sa.gname]>> ELSE <<>>)
              \o (IF consumer
                  THEN <<[op |-> "processConsumerAssignment", held |-> FALSE, ca |-> ca]>>
                  ELSE <<>>))

\* The calls that fail on the server while it processes the call.
AssignFails == {{}, {"LookupAccount"}, {"addStream"}, {"Update"}, {"Delete"}}

\* The streams of its own the account has on the server beforehand.
LocalStreams == {"none", "plain", "internal"}

AssignInit ==
    /\ \E id \in Servers, peers \in PeerSets, leads \in BOOLEAN, consumer \in BOOLEAN,
          more \in BOOLEAN, fsErr \in BOOLEAN, local \in LocalStreams,
          fails \in AssignFails, stream \in AssignStreams, peers2 \in PeerSets,
          op \in {"assign", "remove"} :
          \E st \in Holding(id, peers, leads, consumer, more, fsErr, local) :
              /\ ~st.panic
              /\ fin = [before |-> [st EXCEPT !.fails = fails],
                        op |-> op, sa |-> AssignSA(stream, peers2, 3)]
    /\ fout = NoCall
    /\ fpc = "init"
    /\ SnapIdle
    /\ MetaIdle
    /\ StreamIdle
    /\ ConsumerIdle

\* js.processStreamAssignment(sa) up to its first js.mu.Unlock().
AssignCall ==
    /\ fpc = "init"
    /\ fin.op = "assign"
    /\ fout' = processStreamAssignment(fin.before, fin.sa)
    /\ fpc' = Returned(fout')
    /\ UNCHANGED <<fin, svars, mvars, tvars, cvars>>

\* js.processStreamRemoval(sa) up to its js.mu.Unlock().
RemoveCall ==
    /\ fpc = "init"
    /\ fin.op = "remove"
    /\ fout' = processStreamRemoval(fin.before, fin.sa)
    /\ fpc' = Returned(fout')
    /\ UNCHANGED <<fin, svars, mvars, tvars, cvars>>

\* The next section of the call.
AssignStep ==
    /\ fpc = "running"
    /\ \E in \in StepInputs(fout) : fout' = Step(fout, in)
    /\ fpc' = Returned(fout')
    /\ UNCHANGED <<fin, svars, mvars, tvars, cvars>>

AssignNext == AssignCall \/ RemoveCall \/ AssignStep

SpecAssign == AssignInit /\ [][AssignNext]_vars

\* C28: a stream assignment for a name the map already holds leaves the held
\* entry, the local streams, the groups and their monitors as they were and
\* answers nothing; an assignment for a new name is recorded, and a server
\* outside its peer list creates no local stream and no group for it.
C28_SecondAssignmentIsNoOp ==
    (fpc = "done" /\ fin.op = "assign") =>
        IF streamAssignment(fin.before.streams, fin.sa.acct, fin.sa.name) # Nil
        THEN Quiesce(fout) = fin.before
        ELSE /\ streamAssignment(fout.streams, fin.sa.acct, fin.sa.name) # Nil
             /\ streamAssignment(fout.streams, fin.sa.acct, fin.sa.name).gname
                   = fin.sa.gname
             /\ streamAssignment(fout.streams, "A1", "S1")
                   = streamAssignment(fin.before.streams, "A1", "S1")
             /\ fin.before.id \notin fin.sa.peers =>
                   /\ fout.msets = fin.before.msets
                   /\ fout.nodes = fin.before.nodes
                   /\ fout.mons = fin.before.mons
                   /\ fout.resp = <<>>

\* C29: the removal of a held stream takes its entry, consumers included, out
\* of the map and leaves no account with an empty map; a delete response is
\* sent only when isStreamLeader was true before the entry was removed; the
\* removal of a stream the map does not hold changes and sends nothing.
C29_RemovalPrunesAndAnswersAsLeader ==
    (fpc = "done" /\ fin.op = "remove") =>
        IF streamAssignment(fin.before.streams, fin.sa.acct, fin.sa.name) = Nil
        THEN Quiesce(fout) = fin.before
        ELSE /\ streamAssignment(fout.streams, fin.sa.acct, fin.sa.name) = Nil
             /\ \A a \in DOMAIN fout.streams : DOMAIN fout.streams[a] # {}
             /\ \A a \in DOMAIN fin.before.streams :
                   \A n \in DOMAIN fin.before.streams[a] \ {fin.sa.name} :
                       streamAssignment(fout.streams, a, n) = fin.before.streams[a][n]
             /\ IF isStreamLeader(fin.before, fin.sa.acct, fin.sa.name) = "true"
                THEN /\ Len(fout.resp) <= 1
                     /\ \A i \in 1..Len(fout.resp) :
                           /\ fout.resp[i].kind = "streamDelete"
                           /\ fout.resp[i].reply = fin.sa.reply
                ELSE fout.resp = <<>>

----------------------------------------------------------------------------
(* The node handles of the assignments a server holds.                     *)

\* C30: while a live server is in no handler, every stream and consumer
\* assignment in its map whose group has more than one peer and includes the
\* server has its node set.
C30_MemberGroupsHaveNode ==
    \A s \in Servers :
        (~mjs[s].panic /\ Waits(mjs[s])) =>
            \A a \in DOMAIN mjs[s].streams :
                \A n \in DOMAIN mjs[s].streams[a] :
                    LET sa == mjs[s].streams[a][n]
                        mine(g) == Cardinality(g.peers) > 1 /\ s \in g.peers
                    IN  /\ mine(sa) => sa.node
                        /\ \A c \in DOMAIN sa.consumers :
                              mine(sa.consumers[c]) => sa.consumers[c].node

\* The messages a step put on the wire of catch-up run i: the wire after the
\* step without what it held before (the sender only appends, the requester
\* only takes from the front).
SentByStep(i) ==
    IF i \in DOMAIN tcu'.runs /\ tcu'.runs[i].seq > tcu.runs[i].seq
          /\ tcu.runs[i].state = "running"
    THEN SubSeq(tcu'.runs[i].wire,
                Len(tcu'.runs[i].wire) - (tcu'.runs[i].seq - tcu.runs[i].seq) + 1,
                Len(tcu'.runs[i].wire))
    ELSE <<>>

\* C31: the catch-up sender sends in strictly ascending sequence order, each
\* sequence of the requested range at most once: the next sequence to send never
\* goes back and stays inside the range, a step that advances it from seq to
\* seq' appends exactly one message for each of seq .. seq'-1 in that order, and
\* each of them is a STREAM_MSG frame whose lseq is its sequence minus 1.
C31_AscendingOnceLseqIsSeqMinusOne ==
    [][ \A i \in Runs :
          LET cu == tcu.runs[i]
              cu1 == tcu'.runs[i]
          IN  /\ cu.state = "running" /\ cu1.state = "running" => cu1.seq >= cu.seq
              /\ cu.state = "running" => cu.seq \in cu.first..cu.last
              /\ Len(SentByStep(i)) = (IF cu.state = "running" /\ cu1.seq > cu.seq
                                       THEN cu1.seq - cu.seq ELSE 0)
              /\ cu1.wire # cu.wire /\ (cu.wire = <<>> \/ cu1.wire # Tail(cu.wire))
                    => SentByStep(i) # <<>>
              /\ SentByStep(i) # <<>> =>
                    /\ cu1.wire = cu.wire \o SentByStep(i)
                    /\ \A k \in 1..Len(SentByStep(i)) :
                          /\ SentByStep(i)[k].data[1] = streamMsgOp
                          /\ ~decodeStreamMsg(Tail(SentByStep(i)[k].data)).err
                          /\ decodeStreamMsg(Tail(SentByStep(i)[k].data)).lseq
                                = (cu.seq + k - 1) - 1
      ]_vars

\* Two messages or more of a run are on the wire, the second framed for the
\* sequence after the first, and the sender has reached the end of the range.
C31_Witness ==
    \E i \in Runs :
        LET cu == tcu.runs[i]
        IN  /\ cu.state = "running"
            /\ Len(cu.wire) >= 2
            /\ decodeStreamMsg(Tail(cu.wire[2].data)).lseq
                  = decodeStreamMsg(Tail(cu.wire[1].data)).lseq + 1
            /\ cu.seq = cu.last

----------------------------------------------------------------------------
(* SpecFlow: a leader that has applied its log and a follower behind it,   *)
(* as in SpecCatchup, with the sender's limit on the bytes in flight at    *)
(* maxOut (48 MiB) or scaled down to the size of the model's messages, so  *)
(* that a batch ends on the limit and the sender waits for acks.           *)

\* Below the size of one framed message (27 bytes or more).
ScaledMaxOut == 20

MaxFlowMsgs == 4

FlowInit ==
    /\ \E n \in 1..MaxFlowMsgs, k \in 0..MaxFlowMsgs, dels \in SUBSET (1..MaxFlowMsgs),
          mx \in {ScaledMaxOut, 2 * ScaledMaxOut, maxOut} :
          /\ k <= n
          /\ dels \subseteq 1..n
          /\ LET log == PublishLog(n) \o DeleteLog(dels, n + 1)
             IN  CatchupFrom(log, n, Len(log), k, FALSE, mx)
    /\ SnapIdle
    /\ MetaIdle
    /\ ConsumerIdle
    /\ FuncIdle

FlowNext ==
    \/ StreamApplied
    \/ StreamSnapshot
    \/ InstallStreamSnapshot
    \/ InstallSyncRequest
    \/ InstallSubscribe
    \/ InstallReplaySub
    \/ InstallSend
    \/ HandleSyncRequest
    \/ CatchupStart
    \/ CatchupNextBatch
    \/ CatchupSend
    \/ SyncResponse
    \/ SyncAck
    \/ CatchupStall
    \/ CatchupQuit

SpecFlow == FlowInit /\ [][FlowNext]_vars

\* The sender is a goroutine of its own: it begins, it goes on in the loop of
\* sendNextBatch, it takes a signal that waits on nextBatchC, and its ticker
\* fires when it waits in its select.
SpecFlowLive ==
    FlowInit /\ [][FlowNext]_vars
        /\ WF_vars(CatchupStart) /\ WF_vars(CatchupSend)
        /\ WF_vars(CatchupNextBatch) /\ WF_vars(CatchupStall)

\* The sizes of the messages of a wire, added up.
RECURSIVE WireBytes(_)
WireBytes(w) == IF w = <<>> THEN 0 ELSE Len(Head(w).data) + WireBytes(Tail(w))

\* The sizes that a sequence of acks carries, added up.
RECURSIVE AckBytes(_)
AckBytes(a) == IF a = <<>> THEN 0 ELSE Head(a) + AckBytes(Tail(a))

\* C32: while a catch-up runs, out is the total size of the messages sent whose
\* ack the sender has not taken (those on the wire and those whose ack is on
\* its way), out is never negative, and no message is sent while out is above
\* the limit: every message is sent with out at or below the limit, so out
\* exceeds the limit by less than the size of the last message sent.
C32_OutIsBytesInFlight ==
    /\ [](\A i \in Runs :
            tcu.runs[i].state = "running" =>
               /\ tcu.runs[i].out = WireBytes(tcu.runs[i].wire) + AckBytes(tcu.runs[i].acks)
               /\ tcu.runs[i].out >= 0)
    /\ [][ \A i \in Runs :
             SentByStep(i) # <<>> =>
                LET cu == tcu.runs[i]
                    sent == SentByStep(i)
                IN  /\ tcu'.runs[i].out = cu.out + WireBytes(sent)
                    /\ \A k \in 1..Len(sent) :
                          cu.out + WireBytes(SubSeq(sent, 1, k - 1)) <= cu.max
                    /\ tcu'.runs[i].out - Len(sent[Len(sent)].data) <= cu.max
         ]_vars

\* The sender waits with out above the limit and more of the range to send,
\* after it has taken an ack.
C32_Witness ==
    \E i \in Runs :
        LET cu == tcu.runs[i]
        IN  /\ cu.state = "running"
            /\ cu.pc = "select"
            /\ cu.out > cu.max
            /\ cu.seq < cu.last
            /\ cu.seq > cu.first + 1
            /\ cu.token = 0

\* C33: handling a catch-up ack never blocks: the callback never waits in its
\* signal of the next-batch channel.
C33_AckNeverWaits == \A i \in Runs : ~tcu.runs[i].blocked

\* The sender of run cu has the signal of an ack waiting on nextBatchC: the
\* channel is full and the signal the sender primed it with has been taken.
AckSignalWaits(cu) == cu.token = 1 /\ cu.seq > cu.first

\* C34: every catch-up sender eventually terminates, and only because the next
\* sequence to send has reached LastSeq (done), because its ticker fired with
\* no ack signal waiting (stalled), or because the stream or server quit;
\* a sender that stops on a stall or a quit before LastSeq has not sent the
\* rest of the range, and the follower's LastSeq is still below the snapshot's.
C34_SenderTerminatesForAReason ==
    /\ \A n \in 1..2 :
          (n \in Runs /\ tcu.runs[n].state \in {"started", "running"})
              ~> (n \in Runs /\ tcu.runs[n].state \in {"done", "stalled", "quit"})
    /\ [][ \A i \in Runs :
             LET cu == tcu.runs[i]
                 cu1 == tcu'.runs[i]
             IN  /\ cu.state \in {"done", "stalled", "quit"} =>
                        cu1.state = cu.state /\ cu1.seq = cu.seq /\ cu1.out = cu.out
                 /\ cu.state \in {"started", "running"}
                       /\ cu1.state \notin {"started", "running"} =>
                        /\ cu1.state \in {"done", "stalled", "quit"}
                        /\ cu1.state = "done" => cu.seq >= cu.last
                        /\ cu1.state = "stalled" => ~AckSignalWaits(cu) /\ ~cu.blocked
                        /\ cu1.wire = cu.wire
         ]_vars
    /\ [](\A i \in Runs :
            LET cu == tcu.runs[i]
            IN  cu.state \in {"stalled", "quit"} /\ cu.seq < cu.last =>
                   /\ tstore[cu.to].last < cu.snap.last
                   /\ \A k \in 1..Len(cu.wire) :
                         decodeStreamMsg(Tail(cu.wire[k].data)).lseq + 1 < cu.seq)

\* C35: for a sequence of the requested range that the sender's store reports
\* as not found, the sender emits a skip or delete framing, not an ordinary
\* stream message.
C35_NotFoundSentAsTombstone ==
    [][ \A i \in Runs :
          \A k \in 1..Len(SentByStep(i)) :
             LoadMsg(tstore[tcu.runs[i].from], tcu.runs[i].seq + k - 1).err =>
                 SentByStep(i)[k].data[1] # streamMsgOp
      ]_vars

\* The monitor of s takes a snapshot from ApplyC in this step.
Installs(s) == MonitorIdle(s) /\ tact'.op = "install" /\ tact'.srv = s

\* The sync requests of server s that are in flight.
RequestsOf(cu, s) == SelectSeq(cu.reqs, LAMBDA r : r.ok /\ r.to = s)

\* C36: after a follower processes a stream snapshot its FirstSeq is at least
\* snap.FirstSeq, it holds no sequence of snap.Deleted at or below its LastSeq,
\* and every other sequence at or above snap.FirstSeq is in its store exactly
\* if it was before; it goes on to send a sync request exactly when its LastSeq
\* is below snap.LastSeq, for the sequences from its LastSeq + 1 to
\* snap.LastSeq, and it subscribes to the reply subject before it sends.
C36_SnapshotProcessed ==
    [][ \A s \in Servers :
          /\ Installs(s) =>
                LET snap == tsnap.state
                    old == tstore[s]
                    new == tstore'[s]
                IN  /\ new.first >= snap.first
                    /\ \A q \in snap.deleted : q <= new.last => q \notin new.msgs
                    /\ \A q \in snap.first..(snap.last + old.last) :
                          q \notin snap.deleted => (q \in new.msgs <=> q \in old.msgs)
                    /\ new.last = old.last
                    /\ SectionAfter(s) = [op |-> "processSnapshotSync", snap |-> snap]
          /\ MonitorAt(s, {"processSnapshotSync"}) /\ MonitorStepped(s) =>
                LET snap == Section(s).snap
                IN  /\ tstore[s].last < snap.last <=> SectionAfter(s).op = "sysSubscribe"
                    /\ tstore[s].last >= snap.last <=> SectionAfter(s).op = "Applied"
          /\ MonitorAt(s, {"sysSubscribe", "replaySub"}) /\ MonitorStepped(s) =>
                /\ SectionAfter(s).op \in {"replaySub", "sendSyncRequest"}
                /\ SectionAfter(s).sub \in tcu'.subs
                /\ SectionAfter(s).sub.srv = s
                /\ Section(s).op = "sysSubscribe" => SectionAfter(s).sub \notin tcu.subs
          /\ (MonitorAt(s, {"sendSyncRequest"}) /\ MonitorStepped(s))
                <=> (tact'.op = "install" /\ tact'.srv = s
                        /\ tact'.resp = <<"sendInternalMsgLocked">>)
          /\ MonitorAt(s, {"sendSyncRequest"}) /\ MonitorStepped(s) =>
                LET f == Section(s)
                IN  /\ f.sub \in tcu.subs
                    /\ tstore[s].last < f.snap.last
                    /\ SectionAfter(s).op = "Applied"
                    /\ \A o \in Servers :
                          InLeaderMode(o) =>
                             \E k \in 1..Len(tcu'.reqs) :
                                /\ k > Len(tcu.reqs)
                                /\ tcu'.reqs[k] =
                                      [ok |-> TRUE, at |-> o, to |-> s, reply |-> f.sub.id,
                                       first |-> tstore[s].last + 1, last |-> f.snap.last,
                                       snap |-> f.snap]
          /\ Len(RequestsOf(tcu', s)) > Len(RequestsOf(tcu, s)) =>
                MonitorAt(s, {"sendSyncRequest"})
      ]_vars

\* A follower that held sequences 1 and 2 installed a snapshot that starts at 2
\* and lists a sequence as deleted: it was compacted and has asked for the rest.
C36_Witness ==
    /\ tact.op = "install"
    /\ tact.resp = <<"sendInternalMsgLocked">>
    /\ \E k \in 1..Len(tcu.reqs) :
          LET r == tcu.reqs[k]
          IN  /\ r.ok
              /\ r.to = tact.srv
              /\ r.snap.first >= 2
              /\ r.snap.deleted # {}
              /\ tstore[r.to].first >= 2
              /\ tstore[r.to].msgs # {}

\* The live reply subscriptions of server s.
ReplySubs(s) == {sub \in tcu.subs : sub.srv = s}

\* C37: a stream has at most one live catch-up reply subscription, and none
\* once the install has completed or its sender has stopped.
C37_AtMostOneReplySubscription ==
    /\ \A s \in Servers : Cardinality(ReplySubs(s)) <= 1
    /\ \A i \in Runs :
          tcu.runs[i].state \in {"done", "stalled", "quit"} =>
              [id |-> tcu.runs[i].reply, srv |-> tcu.runs[i].to] \notin tcu.subs

----------------------------------------------------------------------------
(* SpecLock: one request handler of the clustered API, step by step: it    *)
(* takes the JetStream lock, runs to its Propose or to an early return, and *)
(* its deferred Unlock runs when it returns.                               *)

Handlers ==
    {"streamCreate", "streamDelete", "streamPurge", "consumerCreate", "consumerDelete",
     "msgDelete"}

\* What the handler does between js.mu.Lock() and its return: the server state
\* afterwards and what it handed to Propose.
HandlerBody(c) ==
    CASE c.handler = "streamCreate" ->
             jsClusteredStreamRequest(c.st, "A1", "S2", Cardinality(c.peers), c.peers,
                                      c.reply, 3)
      [] c.handler = "streamDelete" ->
             jsClusteredStreamDeleteRequest(c.st, "A1", "S1", c.reply)
      [] c.handler = "streamPurge" ->
             [st |-> c.st, prop |-> jsClusteredStreamPurgeRequest(c.st, "A1", "S1", c.reply)]
      [] c.handler = "consumerCreate" ->
             jsClusteredConsumerRequest(c.st, "A1", "S1", "C2", c.reply, 3)
      [] c.handler = "consumerDelete" ->
             jsClusteredConsumerDeleteRequest(c.st, "A1", "S1", "C1", c.reply)
      [] c.handler = "msgDelete" ->
             [st |-> c.st, prop |-> jsClusteredMsgDeleteRequest(c.st, "A1", "S1", c.reply, 1)]

LockInit ==
    /\ \E id \in Servers, handler \in Handlers, held \in BOOLEAN, peers \in PeerSets \cup {{}},
          consumer \in BOOLEAN :
          /\ ~held => peers \in {{}, {id}} /\ ~consumer
          /\ \E st \in IF held /\ peers # {}
                        THEN Holding(id, peers, FALSE, consumer, FALSE, FALSE, "none")
                        ELSE {NewJS(id)} :
                fin = [handler |-> handler, reply |-> 1, peers |-> peers, st |-> st]
          /\ fout = [mu |-> FALSE, st |-> fin.st, prop |-> <<>>]
    /\ fpc = "init"
    /\ SnapIdle
    /\ MetaIdle
    /\ StreamIdle
    /\ ConsumerIdle

\* js.mu.Lock()
HandlerLock ==
    /\ fpc = "init"
    /\ fout' = [fout EXCEPT !.mu = TRUE]
    /\ fpc' = "locked"
    /\ UNCHANGED <<fin, svars, mvars, tvars, cvars>>

\* The handler's body up to its return; each proposal is recorded with the
\* state of the lock at the call of Propose.
HandlerPropose ==
    /\ fpc = "locked"
    /\ LET r == HandlerBody(fin)
       IN  fout' = [fout EXCEPT !.st = r.st,
                                !.prop = [i \in 1..Len(r.prop) |->
                                             [entry |-> r.prop[i], mu |-> fout.mu]]]
    /\ fpc' = "returning"
    /\ UNCHANGED <<fin, svars, mvars, tvars, cvars>>

\* defer js.mu.Unlock()
HandlerUnlock ==
    /\ fpc = "returning"
    /\ fout' = [fout EXCEPT !.mu = FALSE]
    /\ fpc' = "done"
    /\ UNCHANGED <<fin, svars, mvars, tvars, cvars>>

LockNext ==
    \/ HandlerLock
    \/ HandlerPropose
    \/ HandlerUnlock

SpecLock == LockInit /\ [][LockNext]_vars

\* C38: the JetStream lock is never held while a proposal is submitted to a
\* consensus node: every proposal of a request handler is made with the lock
\* released.
C38_NoProposeUnderLock ==
    \A i \in 1..Len(fout.prop) : ~fout.prop[i].mu

----------------------------------------------------------------------------
(* SpecMonitor: the select loop of monitorStreamRaftGroup on one replica,  *)
(* with committed batches waiting on ApplyC and leader changes waiting on  *)
(* LeadChangeC, while the server or the node may raise its quit signal.    *)
(* Go's select takes any one of the cases that are ready.                  *)

MaxPending == 2

\* The leader changes a node may have queued.
PendingLeads == {<<>>, <<TRUE>>, <<TRUE, FALSE>>}

\* The server state with the leader changes of lch posted by the group's node.
RECURSIVE Posted(_, _)
Posted(st, lch) ==
    IF lch = <<>> THEN st
    ELSE Posted(nodeLeaderChange(st, TheGroup, Head(lch)), Tail(lch))

\* The entries that may follow the publishes on ApplyC: none, or a purge, a
\* delete or a snapshot whose bytes do not unmarshal.
LastEntries ==
    {<<>>, <<CorruptStreamEntry(encodeStreamPurge(1))>>,
     <<CorruptStreamEntry(encodeMsgDelete(1, 1))>>,
     <<CorruptStreamEntry(StreamSnapshotEntry(NoStreamState))>>}

MonitorInit ==
    /\ \E id \in Servers, n \in 0..MaxPending, lch \in PendingLeads, last \in LastEntries :
          /\ \E st \in Done(processStreamAssignment(NewJS(id), TheSA)) :
                fin = [ach |-> PublishLog(n) \o last, lch |-> lch, st |-> Posted(st, lch)]
          /\ fout = [js |-> fin.st, store |-> NewStore, next |-> 1,
                     quit |-> FALSE, events |-> <<>>]
    /\ fpc = "running"
    /\ SnapIdle
    /\ MetaIdle
    /\ StreamIdle
    /\ ConsumerIdle

\* case ce := <-ach: js.applyStreamEntries(mset, ce); a panic ends the
\* goroutine before n.Applied.
MonitorApply ==
    /\ fpc = "running"
    /\ fout.next <= Len(fin.ach)
    /\ LET r == applyStreamEntries(fout.store, fin.ach[fout.next], "")
       IN  /\ fout' = [fout EXCEPT !.store = r.store,
                                   !.js = [fout.js EXCEPT !.panic = r.panic],
                                   !.events = Append(@, [op |-> "apply", index |-> fout.next,
                                                         quit |-> fout.quit])]
           /\ fpc' = IF r.panic THEN "exited" ELSE "applied"
    /\ UNCHANGED <<fin, svars, mvars, tvars, cvars>>

\* n.Applied(ce.Index), which ends the handler of the batch; the event carries
\* the quit signal as the handler found it when select took the batch.
MonitorApplied ==
    /\ fpc = "applied"
    /\ fout' = [fout EXCEPT !.next = @ + 1,
                            !.events = Append(@, [op |-> "Applied", index |-> fout.next,
                                                  quit |-> fout.events[Len(fout.events)].quit])]
    /\ fpc' = "running"
    /\ UNCHANGED <<fin, svars, mvars, tvars, cvars>>

\* case isLeader := <-lch: js.processStreamLeaderChange(mset, sa, isLeader)
\* up to its js.mu.Unlock().
MonitorLeaderChange ==
    /\ fpc = "running"
    /\ LeadChangeC(fout.js, TheGroup) # <<>>
    /\ fout' = [fout EXCEPT !.js = monitorLeaderChange(fout.js, TheGroup),
                            !.events = Append(@, [op |-> "lead", index |-> 0,
                                                  quit |-> fout.quit])]
    /\ fpc' = IF fout'.js.mons[TheGroup].todo = <<>> THEN "running" ELSE "leading"
    /\ UNCHANGED <<fin, svars, mvars, tvars, cvars>>

\* What is left of processStreamLeaderChange once js.mu is released: the
\* answer to the create request.
MonitorLeaderRespond ==
    /\ fpc = "leading"
    /\ fout' = [fout EXCEPT !.js = monitorStep(fout.js, TheGroup)]
    /\ fpc' = IF fout'.js.mons[TheGroup].todo = <<>> THEN "running" ELSE "leading"
    /\ UNCHANGED <<fin, svars, mvars, tvars, cvars>>

\* The server shuts down (s.quitCh is closed) or the node stops (its QuitC).
MonitorQuitRaised ==
    /\ fpc \in {"running", "applied", "leading"}
    /\ ~fout.quit
    /\ fout' = [fout EXCEPT !.quit = TRUE]
    /\ fpc' = fpc
    /\ UNCHANGED <<fin, svars, mvars, tvars, cvars>>

\* case <-s.quitCh, case <-qch: return.
MonitorExit ==
    /\ fpc = "running"
    /\ fout.quit
    /\ fpc' = "exited"
    /\ UNCHANGED <<fin, fout, svars, mvars, tvars, cvars>>

MonitorNext ==
    \/ MonitorApply
    \/ MonitorApplied
    \/ MonitorLeaderChange
    \/ MonitorLeaderRespond
    \/ MonitorQuitRaised
    \/ MonitorExit

SpecMonitor == MonitorInit /\ [][MonitorNext]_vars

\* The indices of the events of one kind, in the order they happened.
RECURSIVE EventIndices(_, _)
EventIndices(ev, op) ==
    IF ev = <<>> THEN <<>>
    ELSE (IF Head(ev).op = op THEN <<Head(ev).index>> ELSE <<>>)
             \o EventIndices(Tail(ev), op)

\* C39: once a quit signal is raised the monitor loop starts no apply and no
\* leader-change work, whatever waits on its channels; while it runs it applies
\* the committed batches in channel order and acknowledges the index of a batch
\* only after it has applied that batch.
C39_NoWorkAfterQuit ==
    /\ \A i \in 1..Len(fout.events) : ~fout.events[i].quit
    /\ EventIndices(fout.events, "apply") =
          [i \in 1..(IF fpc = "applied" \/ fout.js.panic THEN fout.next ELSE fout.next - 1)
              |-> i]
    /\ \A i \in 1..Len(fout.events) :
          fout.events[i].op = "Applied" =>
              \E j \in 1..(i - 1) : /\ fout.events[j].op = "apply"
                                    /\ fout.events[j].index = fout.events[i].index

----------------------------------------------------------------------------
(* SpecConsumerLeader: one call of isConsumerLeader on a server that holds *)
(* stream S1 with none, one or both of the consumers C1 and C2, each on    *)
(* its own peer set and led or not by this server.                         *)

\* The assignment of consumer name of S1 to peers, if any; with leads, the
\* gain of leadership by the consumer's monitor after it.
WithConsumer(name, peers, nuid, leads) ==
    LET g == groupName("C", peers, nuid)
    IN  IF peers = {} THEN <<>>
        ELSE <<[op |-> "processConsumerAssignment", held |-> FALSE,
                ca |-> NewCA("A1", "S1", name, peers, g, nuid)]>>
             \o (IF leads THEN <<[op |-> "lead", g |-> g]>> ELSE <<>>)

ConsumerLeaderInit ==
    /\ \E id \in Servers, peers \in PeerSets, p1 \in PeerSets \cup {{}}, p2 \in PeerSets \cup {{}},
          l1 \in BOOLEAN, l2 \in BOOLEAN, asked \in {"C1", "C2", "C3"}, panicFirst \in BOOLEAN :
          /\ p1 = {} => ~l1
          /\ p2 = {} => ~l2
          /\ \E st2 \in After(NewJS(id),
                               <<[op |-> "processStreamAssignment",
                                  sa |-> AssignSA("S1", peers, 1)]>>
                               \o WithConsumer("C1", p1, 2, l1)
                               \o WithConsumer("C2", p2, 3, l2)) :
                fin = [st |-> st2, consumer |-> asked, panicFirst |-> panicFirst]
    /\ fout = NoCall
    /\ fpc = "init"
    /\ SnapIdle
    /\ MetaIdle
    /\ StreamIdle
    /\ ConsumerIdle

\* cc.isConsumerLeader("A1", "S1", consumer)
ConsumerLeaderCall ==
    /\ fpc = "init"
    /\ fout' = isConsumerLeader(fin.st, "A1", "S1", fin.consumer, fin.panicFirst)
    /\ fpc' = "done"
    /\ UNCHANGED <<fin, svars, mvars, tvars, cvars>>

ConsumerLeaderNext == ConsumerLeaderCall

SpecConsumerLeader == ConsumerLeaderInit /\ [][ConsumerLeaderNext]_vars

\* This server is a member of the group of the consumer asked about and leads
\* it (a group of one peer has no node and its peer leads).
LeadsAsked ==
    LET sa == streamAssignment(fin.st.streams, "A1", "S1")
    IN  /\ sa # Nil
        /\ fin.consumer \in DOMAIN sa.consumers
        /\ LET ca == sa.consumers[fin.consumer]
           IN  /\ fin.st.id \in ca.peers
               /\ \/ Cardinality(ca.peers) = 1
                  \/ ca.gname \in fin.st.lead

\* C40: isConsumerLeader(account, stream, consumer) returns true only when this
\* server is a member and the leader of the group of the consumer of that name,
\* and false for a name that is not assigned on the stream or whose group this
\* server does not lead, whatever other consumers of the stream it leads.  (A
\* call that dereferences a nil node returns nothing and is left aside here.)
C40_LeaderOfThatConsumer ==
    fpc = "done" /\ fout # "panic" =>
        /\ fout = "true" => LeadsAsked
        /\ ~LeadsAsked => fout = "false"
====
